---- MODULE Spec2Model ----
(***************************************************************************)
(* Model of the Quantum Encoder (src/app.py): the Kryon-33 letter code,    *)
(* the number speller, the metrics W, C, Hm, Z, the fractal unfolding,     *)
(* the library with its deduplication and its L1/L2C indexes, the          *)
(* personal collection file and the remote commit.                         *)
(*                                                                         *)
(* Representation.                                                         *)
(*   - A Python str is a sequence of Unicode code points.  Cyrillic text   *)
(*     is written with transliterated letter names: Cyr(<<"S","T","O">>)   *)
(*     is the word of the letters U+0421 U+0422 U+041E.                    *)
(*   - None is the empty sequence <<>> and a present value x is <<x>>      *)
(*     wherever the source holds "a number or None".                       *)
(*   - A computation that may raise returns a record whose field exc is    *)
(*     "" when it returned and the name of the exception when it raised.   *)
(*   - W is kept as the exact ratio [n |-> l2c, d |-> l1].  C, Hm and Z    *)
(*     are fixed-point numbers, in units of 1/SCALE.                       *)
(***************************************************************************)
EXTENDS Integers, Sequences, FiniteSets, TLC

VARIABLES
  APP_CFG,      \* the configuration in force (src/app.py:118)
  fn,           \* function under call: its name
  arg,          \* function under call: its argument
  ret,          \* function under call: its result (<<>> before the call)
  pc,           \* function under call: "call" or "done"
  LIB_DF,       \* the library: the sequence of its rows (<<>>: None or empty)
  INDEX_L1,     \* dict: L1 code -> list of words
  INDEX_L2C,    \* dict: L2C code -> list of words
  INDEX_READY,  \* the flag the index readers test
  sphere_files, \* the files ./spheres/sphere_*.csv, each the sequence of its rows
  last_op,      \* the last handler that ran and the exception it ended with
  steps,        \* how many library handlers have run
  history,      \* the analyses made since the configuration last changed
  rebuilder,    \* the thread inside rebuild_indexes
  reader,       \* the thread inside an index reader
  saver,        \* the call of save_as_sphere_csvs in progress
  LAST_RESULT,  \* the last analysis shown (None: no analysis yet)
  PERSONAL_CSV, \* the file ./personal/personal.csv (None: absent)
  tmp_csv,      \* the file ./personal/personal.csv.tmp (None: absent)
  MUTEX,        \* the thread holding MUTEX (0: free)
  adder,        \* the threads inside add_to_personal
  HF_ENABLED,   \* HF_TOKEN and SPACE_REPO_ID are both set
  local_files,  \* the paths that exist on disk, for commit_ops
  committer,    \* the call of commit_ops in progress
  remote        \* the commits the remote repository holds

pureVars == <<fn, arg, ret, pc>>
libVars == <<LIB_DF, INDEX_L1, INDEX_L2C, INDEX_READY>>
opVars == <<sphere_files, last_op, steps, history>>
concVars == <<rebuilder, reader, saver>>
persVars == <<PERSONAL_CSV, tmp_csv, MUTEX, adder>>
commitVars == <<HF_ENABLED, local_files, committer, remote>>

vars ==
  <<APP_CFG, pureVars, libVars, opVars, concVars, LAST_RESULT, persVars,
    commitVars>>

----------------------------------------------------------------------------
(* Python values *)

None == <<>>
Some(x) == <<x>>

Ok(v) == [exc |-> "", val |-> v]
Raise(e) == [exc |-> e, val |-> <<>>]

Abs(x) == IF x < 0 THEN -x ELSE x
Min2(a, b) == IF b < a THEN b ELSE a
Max2(a, b) == IF b > a THEN b ELSE a

\* arr[i] of a Python list: negative indexes count from the end
PyIndex(arr, i) ==
  IF 0 <= i /\ i < Len(arr) THEN Ok(arr[i + 1])
  ELSE IF i < 0 /\ -i <= Len(arr) THEN Ok(arr[Len(arr) + i + 1])
  ELSE Raise("IndexError")

\* sep.join(parts)
RECURSIVE Join(_, _)
Join(parts, sep) ==
  IF parts = <<>> THEN <<>>
  ELSE IF Len(parts) = 1 THEN parts[1]
  ELSE parts[1] \o sep \o Join(Tail(parts), sep)

----------------------------------------------------------------------------
(* Characters *)

CYR ==
  [A |-> 1040, B |-> 1041, V |-> 1042, G |-> 1043, D |-> 1044, E |-> 1045,
   YO |-> 1025, ZH |-> 1046, Z |-> 1047, I |-> 1048, J |-> 1049, K |-> 1050,
   L |-> 1051, M |-> 1052, N |-> 1053, O |-> 1054, P |-> 1055, R |-> 1056,
   S |-> 1057, T |-> 1058, U |-> 1059, F |-> 1060, H |-> 1061, TS |-> 1062,
   CH |-> 1063, SH |-> 1064, SCH |-> 1065, SOFT |-> 1068, Y |-> 1067,
   HARD |-> 1066, EH |-> 1069, YU |-> 1070, YA |-> 1071]

Cyr(names) == [i \in 1..Len(names) |-> CYR[names[i]]]

SP == <<32>>
BANG == <<33>>

\* str.isspace for the characters of the model
IsSpace(c) == c \in {9, 10, 11, 12, 13, 32}

\* str.upper / str.lower, one character
UpperCh(c) ==
  IF c \in 1072..1103 THEN c - 32
  ELSE IF c = 1105 THEN 1025
  ELSE IF c \in 97..122 THEN c - 32
  ELSE c

LowerCh(c) ==
  IF c \in 1040..1071 THEN c + 32
  ELSE IF c = 1025 THEN 1105
  ELSE IF c \in 65..90 THEN c + 32
  ELSE c

upper(s) == [i \in 1..Len(s) |-> UpperCh(s[i])]
lower(s) == [i \in 1..Len(s) |-> LowerCh(s[i])]

RECURSIVE lstrip(_)
lstrip(s) == IF s # <<>> /\ IsSpace(Head(s)) THEN lstrip(Tail(s)) ELSE s

RECURSIVE rstrip(_)
rstrip(s) ==
  IF s # <<>> /\ IsSpace(s[Len(s)]) THEN rstrip(SubSeq(s, 1, Len(s) - 1)) ELSE s

strip(s) == rstrip(lstrip(s))

----------------------------------------------------------------------------
(* Kryon-33 *)

KRYON_ORDER ==
  <<"A", "B", "V", "G", "D", "E", "YO", "ZH", "Z", "I", "J", "K", "L", "M",
    "N", "O", "P", "R", "S", "T", "U", "F", "H", "TS", "CH", "SH", "SCH",
    "SOFT", "Y", "HARD", "EH", "YU", "YA">>

KRYON_MAP ==
  [c \in {CYR[KRYON_ORDER[i]] : i \in 1..Len(KRYON_ORDER)} |->
     CHOOSE i \in 1..Len(KRYON_ORDER) : CYR[KRYON_ORDER[i]] = c]

\* KRYON_MAP.get(ch, 0)
KryonGet(ch) == IF ch \in DOMAIN KRYON_MAP THEN KRYON_MAP[ch] ELSE 0

\* sum(KRYON_MAP.get(ch, 0) for ch in s)
RECURSIVE SumCodes(_)
SumCodes(s) == IF s = <<>> THEN 0 ELSE KryonGet(Head(s)) + SumCodes(Tail(s))

\* the characters the regex [U+0410-U+042F, U+0401] keeps
IsKryonLetter(c) == c \in 1040..1071 \/ c = 1025

\* the capital letters of t alone: the text not upper-cased first
capitals_only(t) == SelectSeq(t, IsKryonLetter)

\* re.sub(r"[^A-YA,YO]", "", (t or "").upper()), the class being the 33
\* Cyrillic capitals
normalize(t) == SelectSeq(upper(t), IsKryonLetter)

calc_l1_from_string(s) ==
  LET w == normalize(s)
  IN  IF w = <<>> THEN [isNone |-> TRUE, norm |-> <<>>, l1 |-> 0]
      ELSE [isNone |-> FALSE, norm |-> w, l1 |-> SumCodes(w)]

----------------------------------------------------------------------------
(* Number speller *)

HUNDS ==
  << <<>>,
     Cyr(<<"S","T","O">>),
     Cyr(<<"D","V","E","S","T","I">>),
     Cyr(<<"T","R","I","S","T","A">>),
     Cyr(<<"CH","E","T","Y","R","E","S","T","A">>),
     Cyr(<<"P","YA","T","SOFT","S","O","T">>),
     Cyr(<<"SH","E","S","T","SOFT","S","O","T">>),
     Cyr(<<"S","E","M","SOFT","S","O","T">>),
     Cyr(<<"V","O","S","E","M","SOFT","S","O","T">>),
     Cyr(<<"D","E","V","YA","T","SOFT","S","O","T">>) >>

TENS ==
  << <<>>,
     Cyr(<<"D","E","S","YA","T","SOFT">>),
     Cyr(<<"D","V","A","D","TS","A","T","SOFT">>),
     Cyr(<<"T","R","I","D","TS","A","T","SOFT">>),
     Cyr(<<"S","O","R","O","K">>),
     Cyr(<<"P","YA","T","SOFT","D","E","S","YA","T">>),
     Cyr(<<"SH","E","S","T","SOFT","D","E","S","YA","T">>),
     Cyr(<<"S","E","M","SOFT","D","E","S","YA","T">>),
     Cyr(<<"V","O","S","E","M","SOFT","D","E","S","YA","T">>),
     Cyr(<<"D","E","V","YA","N","O","S","T","O">>) >>

UNITS ==
  << <<>>,
     Cyr(<<"O","D","I","N">>),
     Cyr(<<"D","V","A">>),
     Cyr(<<"T","R","I">>),
     Cyr(<<"CH","E","T","Y","R","E">>),
     Cyr(<<"P","YA","T","SOFT">>),
     Cyr(<<"SH","E","S","T","SOFT">>),
     Cyr(<<"S","E","M","SOFT">>),
     Cyr(<<"V","O","S","E","M","SOFT">>),
     Cyr(<<"D","E","V","YA","T","SOFT">>) >>

UNITS_FEM ==
  << <<>>,
     Cyr(<<"O","D","N","A">>),
     Cyr(<<"D","V","E">>),
     Cyr(<<"T","R","I">>),
     Cyr(<<"CH","E","T","Y","R","E">>),
     Cyr(<<"P","YA","T","SOFT">>),
     Cyr(<<"SH","E","S","T","SOFT">>),
     Cyr(<<"S","E","M","SOFT">>),
     Cyr(<<"V","O","S","E","M","SOFT">>),
     Cyr(<<"D","E","V","YA","T","SOFT">>) >>

TEENS ==
  << Cyr(<<"D","E","S","YA","T","SOFT">>),
     Cyr(<<"O","D","I","N","N","A","D","TS","A","T","SOFT">>),
     Cyr(<<"D","V","E","N","A","D","TS","A","T","SOFT">>),
     Cyr(<<"T","R","I","N","A","D","TS","A","T","SOFT">>),
     Cyr(<<"CH","E","T","Y","R","N","A","D","TS","A","T","SOFT">>),
     Cyr(<<"P","YA","T","N","A","D","TS","A","T","SOFT">>),
     Cyr(<<"SH","E","S","T","N","A","D","TS","A","T","SOFT">>),
     Cyr(<<"S","E","M","N","A","D","TS","A","T","SOFT">>),
     Cyr(<<"V","O","S","E","M","N","A","D","TS","A","T","SOFT">>),
     Cyr(<<"D","E","V","YA","T","N","A","D","TS","A","T","SOFT">>) >>

NOL == Cyr(<<"N","O","L","SOFT">>)
TYSYACH == Cyr(<<"T","Y","S","YA","CH">>)
TYSYACHA == Cyr(<<"T","Y","S","YA","CH","A">>)
TYSYACHI == Cyr(<<"T","Y","S","YA","CH","I">>)

\* _number_to_words_0_999: out after the appends, joined; hw is HUNDS[h]
WordsOfDigits(h, t, u, units_arr, hw) ==
  IF h # 0 /\ hw.exc # "" THEN Raise(hw.exc)
  ELSE Ok(Join((IF h # 0 THEN <<hw.val>> ELSE <<>>)
               \o (IF t = 1 THEN <<PyIndex(TEENS, u).val>>
                   ELSE (IF t # 0 THEN <<PyIndex(TENS, t).val>> ELSE <<>>)
                        \o (IF u # 0 THEN <<PyIndex(units_arr, u).val>>
                            ELSE <<>>)),
               SP))

\* _number_to_words_0_999(n, feminine): Ok(text) or Raise("IndexError")
number_to_words_0_999(n, feminine) ==
  IF n = 0 THEN Ok(NOL)
  ELSE WordsOfDigits(n \div 100, (n % 100) \div 10, n % 10,
                     IF feminine THEN UNITS_FEM ELSE UNITS,
                     PyIndex(HUNDS, n \div 100))

\* the form of the word for "thousand" after T thousands
ThousandWord(T) ==
  IF T % 100 \in {11, 12, 13, 14} THEN TYSYACH
  ELSE IF T % 10 = 1 THEN TYSYACHA
  ELSE IF T % 10 \in {2, 3, 4} THEN TYSYACHI
  ELSE TYSYACH

\* number_to_words_ru_0_999999: parts, joined
WordsOfThousands(T, R, thousands_str) ==
  IF thousands_str.exc # "" THEN Raise(thousands_str.exc)
  ELSE IF R > 0
    THEN Ok(Join(<<thousands_str.val, ThousandWord(T),
                   number_to_words_0_999(R, FALSE).val>>, SP))
    ELSE Ok(Join(<<thousands_str.val, ThousandWord(T)>>, SP))

\* number_to_words_ru_0_999999(n): Ok(text) or Raise("IndexError")
number_to_words_ru_0_999999(n) ==
  IF n = 0 THEN Ok(NOL)
  ELSE IF n < 1000 THEN number_to_words_0_999(n, FALSE)
  ELSE WordsOfThousands(n \div 1000, n % 1000,
                        number_to_words_0_999(n \div 1000, TRUE))

CODE_MAX == 999999

\* a plausible slip: the upper limit taken exclusive
OutOfRangeExclusive(l1) == l1 < 0 \/ l1 >= CODE_MAX

\* the range check of calc_l2c_from_l1
OutOfRange(l1) == l1 < 0 \/ l1 > CODE_MAX

\* the characters re.sub(r"[\s\t\n\r\-]+", "", words) keeps
NotSpaceOrHyphen(c) == ~IsSpace(c) /\ c # 45

\* calc_l2c_from_l1: the tuple returned for the spelled form and its glued,
\* normalised letters
CodeOfGlued(words, glued) ==
  [exc |-> "", l2c |-> Some(SumCodes(glued)), words |-> words,
   glued |-> glued, out_of_range |-> FALSE]

\* calc_l2c_from_l1 after the spelling: words is Ok(text) or the exception
CodeOfWords(words) ==
  IF words.exc # ""
  THEN [exc |-> words.exc, l2c |-> None, words |-> None, glued |-> None,
        out_of_range |-> FALSE]
  ELSE CodeOfGlued(words.val,
                   normalize(SelectSeq(words.val, NotSpaceOrHyphen)))

\* calc_l2c_from_l1(l1): (l2c, words, glued, out_of_range), or the exception
calc_l2c_from_l1(l1) ==
  IF OutOfRange(l1)
  THEN [exc |-> "", l2c |-> None, words |-> None, glued |-> None,
        out_of_range |-> TRUE]
  ELSE CodeOfWords(number_to_words_ru_0_999999(l1))

----------------------------------------------------------------------------
(* Floating point: fixed point in units of 1/SCALE, rounded down *)

SCALE == 100 * 100

\* long division: q and r are the quotient and remainder so far, s the
\* factor still to be applied (a power of ten)
RECURSIVE LongDiv(_, _, _, _)
LongDiv(q, r, b, s) ==
  IF s = 1 THEN q
  ELSE LongDiv(q * 10 + ((r * 10) \div b), (r * 10) % b, b, s \div 10)

\* the float a / b for b # 0, in fixed point
FDiv(a, b) ==
  (IF (a < 0) = (b < 0) THEN 1 ELSE -1)
    * LongDiv(Abs(a) \div Abs(b), Abs(a) % Abs(b), Abs(b), SCALE)

\* a plausible slip: the clamp left out
NoClamp(x) == x

\* max(0.0, min(1.0, x))
Clamp01(x) == Max2(0, Min2(SCALE, x))

HALF_PI == 15708

\* the series 1 - x^2/2 + x^4/24 - x^6/720, given x^2 and x^4
CosSeries(x2, x4) ==
  SCALE - (x2 \div 2) + (x4 \div 24) - (((x4 * x2) \div SCALE) \div 720)

\* x * x in fixed point
Square(x) == (x * x) \div SCALE

\* cos(x) for 0 <= x <= pi/2
CosCore(x) == CosSeries(Square(x), Square(Square(x)))

\* cos(b) for 0 <= b <= pi: cos(pi - b) = -cos(b)
CosFolded(b) ==
  IF b > HALF_PI THEN -CosCore(2 * HALF_PI - b) ELSE CosCore(b)

\* an angle a in 0..2 pi brought into 0..pi: cos(2 pi - a) = cos(a)
FoldAngle(a) == IF a > 2 * HALF_PI THEN 4 * HALF_PI - a ELSE a

\* math.cos(x): even, of period 2 pi
math_cos(x) == CosFolded(FoldAngle(Abs(x) % (4 * HALF_PI)))

\* exp(-k) for k = 0, 1, 2, ...; below the resolution it is 0
EXP_NEG_INT == <<10000, 3679, 1353, 498, 183, 67, 25, 9, 3, 1>>

\* the series 1 - f + f^2/2 - f^3/6 + f^4/24, given f, f^2, f^3
ExpSeries(f, f2, f3) ==
  SCALE - f + (f2 \div 2) - (f3 \div 6) + (((f3 * f) \div SCALE) \div 24)

\* exp(-(k + f)) for an integer k and a fraction f
ExpNegParts(k, f) ==
  IF k >= Len(EXP_NEG_INT) THEN 0
  ELSE (EXP_NEG_INT[k + 1]
          * ExpSeries(f, Square(f), (Square(f) * f) \div SCALE)) \div SCALE

\* math.exp(-u) for u >= 0
math_exp_neg(u) == ExpNegParts(u \div SCALE, u % SCALE)

----------------------------------------------------------------------------
(* Metrics *)

\* targets = [1, 1.25, 1.33, 1.5, 2, 3], in hundredths
TARGETS == <<100, 125, 133, 150, 200, 300>>

\* abs(w - t) / t
TargetDist(w_fp, t) == (Abs(w_fp - t * (SCALE \div 100)) * 100) \div t

\* min(abs(w - t) / t for t in targets)
RECURSIVE MinTargetDist(_, _)
MinTargetDist(w_fp, ts) ==
  IF Len(ts) = 1 THEN TargetDist(w_fp, Head(ts))
  ELSE Min2(TargetDist(w_fp, Head(ts)), MinTargetDist(w_fp, Tail(ts)))

\* math.exp(-(d / s) ** 2) for d, s >= 0, s # 0
BellOf(d, s) ==
  IF d >= 4 * s THEN 0
  ELSE math_exp_neg(Square((d * SCALE) \div s))

\* math.exp(-((w - 2) / sigma) ** 2), sigma # 0
Bell(w_fp, sigma) == BellOf(Abs(w_fp - 2 * SCALE), Abs(sigma))

\* metrics: the tuple returned, given w, C and Hm
MetricsOf(l1, l2c, w_fp, C, Hm) ==
  [exc |-> "", w |-> [n |-> l2c, d |-> l1], w_fp |-> w_fp, C |-> C,
   Hm |-> Hm,
   Z |-> Clamp01((((C * Hm) \div SCALE) * Bell(w_fp, APP_CFG.sigma_Z))
                   \div SCALE)]

\* metrics(l1, l2c): (w, C, Hm, Z), or ZeroDivisionError
metrics(l1, l2c) ==
  IF l1 = 0 \/ l2c + l1 = 0 \/ APP_CFG.sigma_Z = 0
  THEN [exc |-> "ZeroDivisionError", w |-> None, w_fp |-> 0, C |-> 0, Hm |-> 0, Z |-> 0]
  ELSE MetricsOf(l1, l2c, FDiv(l2c, l1),
                 Square(math_cos((HALF_PI * FDiv(Abs(l2c - l1), l2c + l1))
                                   \div SCALE)),
                 Clamp01(SCALE - MinTargetDist(FDiv(l2c, l1), TARGETS)))

\* a < b for two ratios of positive denominator
RatLess(a, b) == a.n * b.d < b.n * a.d

----------------------------------------------------------------------------
(* Fractal unfolding *)

FRACTAL_STEPS == 12

RECURSIVE FractalLoop(_, _, _)

\* the loop of fractal_unfold after metrics(curr_l1, l2c) gave m
FractalAppend(k, w_values, l2c, m) ==
  IF m.exc # "" THEN [exc |-> m.exc, w_values |-> w_values, iters |-> k + 1]
  ELSE FractalLoop(l2c, k + 1, Append(w_values, m.w))

\* the loop of fractal_unfold after calc_l2c_from_l1(curr_l1) gave r
FractalStep(curr_l1, k, w_values, r) ==
  IF r.exc # "" THEN [exc |-> r.exc, w_values |-> w_values, iters |-> k + 1]
  ELSE IF r.out_of_range \/ r.l2c = None
  THEN [exc |-> "", w_values |-> w_values, iters |-> k + 1]
  ELSE FractalAppend(k, w_values, r.l2c[1], metrics(curr_l1, r.l2c[1]))

\* the for loop of fractal_unfold: k iterations done, w_values so far
FractalLoop(curr_l1, k, w_values) ==
  IF k = FRACTAL_STEPS THEN [exc |-> "", w_values |-> w_values, iters |-> k]
  ELSE FractalStep(curr_l1, k, w_values, calc_l2c_from_l1(curr_l1))

\* the symbols with the equal values taken as inhale
FractalSymbolsNotFalling(w_values) ==
  [i \in 1..(Len(w_values) - 1) |->
     IF ~RatLess(w_values[i + 1], w_values[i]) THEN "inhale" ELSE "exhale"]

\* the symbols of the pattern, without the terminal arrow
FractalSymbols(w_values) ==
  [i \in 1..(Len(w_values) - 1) |->
     IF RatLess(w_values[i], w_values[i + 1]) THEN "inhale" ELSE "exhale"]

Count(seq, x) == Cardinality({i \in DOMAIN seq : seq[i] = x})

\* R = inhale / exhale, inf or 1.0 when exhale is 0
FractalRatio(inhale, exhale) ==
  IF exhale = 0
  THEN (IF inhale > 0 THEN [inf |-> TRUE, n |-> 1, d |-> 0]
        ELSE [inf |-> FALSE, n |-> 1, d |-> 1])
  ELSE [inf |-> FALSE, n |-> inhale, d |-> exhale]

\* the reading of R against 1.05 and 0.95
FractalInterp(R) ==
  IF R.inf \/ R.n * 100 > 105 * R.d THEN "unfolds"
  ELSE IF R.n * 100 < 95 * R.d THEN "stabilizes"
  ELSE "equilibrium"

\* fractal_unfold: the tuple returned for a non-empty w_values
FractalPattern(loop, syms, R) ==
  [exc |-> "", iters |-> loop.iters, w_values |-> loop.w_values,
   pattern |-> Append(syms, "arrow"), inhale |-> Count(syms, "inhale"),
   exhale |-> Count(syms, "exhale"), R |-> R, interp |-> FractalInterp(R)]

\* fractal_unfold without the test for an empty w_values
FractalUnguarded(loop) ==
  IF loop.exc # ""
  THEN [exc |-> loop.exc, iters |-> loop.iters, w_values |-> loop.w_values,
        pattern |-> <<>>, inhale |-> 0, exhale |-> 0,
        R |-> [inf |-> FALSE, n |-> 0, d |-> 1], interp |-> ""]
  ELSE FractalPattern(loop, FractalSymbols(loop.w_values), FractalRatio(0, 0))

\* fractal_unfold after its loop
FractalOf(loop) ==
  IF loop.exc # ""
  THEN [exc |-> loop.exc, iters |-> loop.iters, w_values |-> loop.w_values,
        pattern |-> <<>>, inhale |-> 0, exhale |-> 0,
        R |-> [inf |-> FALSE, n |-> 0, d |-> 1], interp |-> ""]
  ELSE IF loop.w_values = <<>>
  THEN [exc |-> "", iters |-> loop.iters, w_values |-> loop.w_values,
        pattern |-> <<"dash">>, inhale |-> 0, exhale |-> 0,
        R |-> [inf |-> FALSE, n |-> 0, d |-> 1], interp |-> "out_of_range"]
  ELSE FractalPattern(
         loop, FractalSymbols(loop.w_values),
         FractalRatio(Count(FractalSymbols(loop.w_values), "inhale"),
                      Count(FractalSymbols(loop.w_values), "exhale")))

\* fractal_unfold(l1): (pattern, inhale, exhale, R, interp), or the exception
fractal_unfold(l1) == FractalOf(FractalLoop(l1, 0, <<>>))

----------------------------------------------------------------------------
(* Values read from JSON objects and CSV cells *)

PyNone == [t |-> "none", i |-> 0, s |-> <<>>]
PyBool(b) == [t |-> "bool", i |-> IF b THEN 1 ELSE 0, s |-> <<>>]
PyInt(n) == [t |-> "int", i |-> n, s |-> <<>>]
PyStr(x) == [t |-> "str", i |-> 0, s |-> x]

IsDigit(c) == c \in 48..57

RECURSIVE DigitsValue(_, _)
DigitsValue(s, acc) ==
  IF s = <<>> THEN acc ELSE DigitsValue(Tail(s), acc * 10 + (Head(s) - 48))

\* int(d) for a stripped str d
DigitsToInt(d) ==
  IF d # <<>> /\ \A k \in DOMAIN d : IsDigit(d[k])
  THEN Ok(DigitsValue(d, 0))
  ELSE Raise("ValueError")

\* int(x)
to_int(x) ==
  CASE x.t = "int" -> Ok(x.i)
    [] x.t = "bool" -> Ok(x.i)
    [] x.t = "none" -> Raise("TypeError")
    [] x.t = "str" -> DigitsToInt(strip(x.s))

\* "true", "1", "yes", "y", "da" (Cyrillic)
TRUE_WORDS ==
  { <<116, 114, 117, 101>>, <<49>>, <<121, 101, 115>>, <<121>>,
    <<1076, 1072>> }

parse_bool(x) ==
  CASE x.t = "bool" -> x.i = 1
    [] x.t = "int" -> x.i # 0
    [] x.t = "none" -> FALSE
    [] x.t = "str" -> lower(strip(x.s)) \in TRUE_WORDS

----------------------------------------------------------------------------
(* Library rows.  A DataFrame is the sequence of its rows; None and the    *)
(* empty DataFrame are both <<>> (the source tests them together).         *)

\* "prochee" (Cyrillic), "neutral", "nan", " | "
PROCHEE == <<1087, 1088, 1086, 1095, 1077, 1077>>
NEUTRAL == <<110, 101, 117, 116, 114, 97, 108>>
NAN == <<110, 97, 110>>
NOTE_SEP == <<32, 124, 32>>

\* force_recalc_row: the row returned when the code is out of range
MinimalRow(word, sphere, tone, allowed, notes, field, role) ==
  [word |-> word, sphere |-> sphere, tone |-> tone, allowed |-> allowed,
   field |-> field, role |-> role, notes |-> notes,
   l1 |-> None, l2c |-> None, w |-> None, C |-> None, Hm |-> None, Z |-> None]

\* force_recalc_row: notes_str
NotesStr(stripped) == IF lower(stripped) = NAN THEN <<>> ELSE stripped

\* force_recalc_row: the row returned, given int(l1), int(l2c) and the
\* metrics m; each is Ok(value) or the exception
RowOfMetrics(word, sphere, tone, allowed, notes, i1, i2, m, field, role) ==
  IF i1.exc # "" THEN Raise(i1.exc)
  ELSE IF i2.exc # "" THEN Raise(i2.exc)
  ELSE IF m.exc # "" THEN Raise(m.exc)
  ELSE Ok([word |-> word, sphere |-> sphere, tone |-> tone,
           allowed |-> parse_bool(PyBool(allowed)),
           field |-> strip(field), role |-> strip(role),
           notes |-> NotesStr(strip(notes)),
           l1 |-> Some(i1.val), l2c |-> Some(i2.val), w |-> Some(m.w),
           C |-> Some(m.C), Hm |-> Some(m.Hm), Z |-> Some(m.Z)])

\* force_recalc_row from metrics(int(l1), int(l2c)) on, given int(l1), int(l2c)
RowOfInts(word, sphere, tone, allowed, notes, i1, i2, field, role) ==
  RowOfMetrics(word, sphere, tone, allowed, notes, i1, i2,
               metrics(i1.val, i2.val), field, role)

\* force_recalc_row from metrics(int(l1), int(l2c)) on
FullRow(word, sphere, tone, allowed, notes, l1, l2c, field, role) ==
  RowOfInts(word, sphere, tone, allowed, notes, to_int(l1), to_int(l2c),
            field, role)

\* force_recalc_row for l2c None, given int(l1) as i1 and
\* calc_l2c_from_l1(int(l1)) as r
RowOfCode(word, sphere, tone, allowed, notes, l1, i1, r, field, role) ==
  IF i1.exc # "" THEN Raise(i1.exc)
  ELSE IF r.exc # "" THEN Raise(r.exc)
  ELSE IF r.out_of_range \/ r.l2c = None
  THEN Ok(MinimalRow(word, sphere, tone, allowed, notes, field, role))
  ELSE FullRow(word, sphere, tone, allowed, notes, l1, PyInt(r.l2c[1]),
               field, role)

\* force_recalc_row after l1 is set
RowOfL1(word, sphere, tone, allowed, notes, l1, l2c, field, role) ==
  IF l2c.t = "none"
  THEN RowOfCode(word, sphere, tone, allowed, notes, l1, to_int(l1),
                 calc_l2c_from_l1(to_int(l1).val), field, role)
  ELSE FullRow(word, sphere, tone, allowed, notes, l1, l2c, field, role)

\* force_recalc_row(word, sphere, tone, allowed, notes, l1, l2c, field, role):
\* Ok(row) or the exception.  l1 and l2c are PyNone when not given; field and
\* role are <<>> when not given.
force_recalc_row(word, sphere, tone, allowed, notes, l1, l2c, field, role) ==
  RowOfL1(word, sphere, tone, allowed, notes,
          IF l1.t = "none" THEN PyInt(calc_l1_from_string(word).l1) ELSE l1,
          l2c, field, role)

----------------------------------------------------------------------------
(* Deduplication *)

\* a < b for two str, as Python compares them
RECURSIVE StrLess(_, _)
StrLess(a, b) ==
  IF b = <<>> THEN FALSE
  ELSE IF a = <<>> THEN TRUE
  ELSE IF Head(a) # Head(b) THEN Head(a) < Head(b)
  ELSE StrLess(Tail(a), Tail(b))

\* the groupby key of a row
KeyOf(row) == <<row.word, row.sphere, row.tone>>

\* k1 < k2 for two keys (tuples of str)
KeyLess(k1, k2) ==
  \/ StrLess(k1[1], k2[1])
  \/ k1[1] = k2[1] /\ StrLess(k1[2], k2[2])
  \/ k1[1] = k2[1] /\ k1[2] = k2[2] /\ StrLess(k1[3], k2[3])

\* the least key of K
MinKey(K) == CHOOSE k \in K : \A j \in K \ {k} : KeyLess(k, j)

\* the keys in ascending order (groupby sorts its groups)
RECURSIVE SortKeys(_)
SortKeys(K) ==
  IF K = {} THEN <<>> ELSE <<MinKey(K)>> \o SortKeys(K \ {MinKey(K)})

\* the rows of one group, in the order of the DataFrame
RECURSIVE GroupRows(_, _)
GroupRows(df, k) ==
  IF df = <<>> THEN <<>>
  ELSE (IF KeyOf(Head(df)) = k THEN <<Head(df)>> ELSE <<>>)
         \o GroupRows(Tail(df), k)

\* uniq_notes: the stripped, non-empty, distinct notes in first-seen order
RECURSIVE UniqStripped(_, _)
UniqStripped(notes, out) ==
  IF notes = <<>> THEN out
  ELSE IF strip(Head(notes)) # <<>>
          /\ \A k \in DOMAIN out : out[k] # strip(Head(notes))
  THEN UniqStripped(Tail(notes), Append(out, strip(Head(notes))))
  ELSE UniqStripped(Tail(notes), out)

\* the notes of the first row of the group only
first_notes(group) == strip(group[1].notes)

\* uniq_notes over the notes column of a group, joined with " | "
uniq_notes(group) ==
  Join(UniqStripped([k \in DOMAIN group |-> group[k].notes], <<>>), NOTE_SEP)

\* pick_first_nonempty over a column of str
RECURSIVE pick_first_nonempty(_)
pick_first_nonempty(series) ==
  IF series = <<>> THEN <<>>
  ELSE IF strip(Head(series)) # <<>> THEN strip(Head(series))
  ELSE pick_first_nonempty(Tail(series))

\* rows.append(row) for the row force_recalc_row gave: Ok(<<row>>) or the
\* exception
AppendRow(row) == IF row.exc # "" THEN Raise(row.exc) ELSE Ok(<<row.val>>)

\* the body of the loop of soft_dedup for one group: Ok(<<>>) when the group
\* is skipped, Ok(<<row>>) or the exception otherwise
DedupGroup(k, group) ==
  IF normalize(upper(strip(k[1]))) = <<>> THEN Ok(<<>>)
  ELSE AppendRow(force_recalc_row(
         normalize(upper(strip(k[1]))),
         IF k[2] # <<>> THEN strip(k[2]) ELSE PROCHEE,
         IF k[3] # <<>> THEN strip(k[3]) ELSE NEUTRAL,
         \E i \in DOMAIN group : parse_bool(PyBool(group[i].allowed)),
         uniq_notes(group), PyNone, PyNone,
         pick_first_nonempty([i \in DOMAIN group |-> group[i].field]),
         pick_first_nonempty([i \in DOMAIN group |-> group[i].role])))

RECURSIVE DedupLoop(_, _, _)

\* the loop of soft_dedup after the body gave g for the first of keys
DedupNext(df, keys, deduped_rows, g) ==
  IF g.exc # "" THEN Raise(g.exc)
  ELSE DedupLoop(df, Tail(keys), deduped_rows \o g.val)

\* the loop of soft_dedup over the sorted keys
DedupLoop(df, keys, deduped_rows) ==
  IF keys = <<>> THEN Ok(deduped_rows)
  ELSE DedupNext(df, keys, deduped_rows,
                 DedupGroup(Head(keys), GroupRows(df, Head(keys))))

\* the rows kept as they came, not regrouped and not recomputed
KeepRows(df) == Ok(df)

\* soft_dedup(df): Ok(DataFrame) or the exception
soft_dedup(df) ==
  IF df = <<>> THEN Ok(df)
  ELSE DedupLoop(df, SortKeys({KeyOf(df[i]) : i \in DOMAIN df}), <<>>)

----------------------------------------------------------------------------
(* Indexes: a dict from code to the list of the words of that code *)

EmptyIndex == <<>>

\* dict.clear() left out: the entries stay
KeepEntries(index) == index

\* INDEX.clear()
Clear(index) == EmptyIndex

\* if code not in INDEX: INDEX[code] = []; if word not in INDEX[code]: append
IndexAdd(index, code, word) ==
  IF code \notin DOMAIN index THEN index @@ (code :> <<word>>)
  ELSE IF \E k \in DOMAIN index[code] : index[code][k] = word THEN index
  ELSE [index EXCEPT ![code] = Append(@, word)]

\* the body of the loop of rebuild_indexes for one row, on one index
IndexRow(index, word, code) ==
  IF upper(word) = <<>> \/ code = None THEN index
  ELSE IndexAdd(index, code[1], upper(word))

\* rebuild_indexes: one index after the rows of df, starting from index
RECURSIVE IndexRows(_, _, _)
IndexRows(index, df, col) ==
  IF df = <<>> THEN index
  ELSE IndexRows(IndexRow(index, Head(df).word,
                          IF col = "l1" THEN Head(df).l1 ELSE Head(df).l2c),
                 Tail(df), col)

\* rebuild_indexes(df) on the indexes index_l1 and index_l2c: the two
\* indexes and INDEX_READY it leaves
rebuild_indexes(index_l1, index_l2c, df) ==
  [l1 |-> IndexRows(Clear(index_l1), df, "l1"),
   l2c |-> IndexRows(Clear(index_l2c), df, "l2c"),
   ready |-> df # <<>>]

----------------------------------------------------------------------------
(* Library handlers.  The library state is the record                      *)
(* [df, l1, l2c, ready] of LIB_DF, INDEX_L1, INDEX_L2C and INDEX_READY; a   *)
(* handler returns the state it leaves and the exception it ended with.    *)

\* the library state of the DataFrame df and the indexes ix
LibOf(df, ix) == [df |-> df, l1 |-> ix.l1, l2c |-> ix.l2c, ready |-> ix.ready]

\* LIB_DF = df.copy(); rebuild_indexes(LIB_DF)
Replace(lib, df) == LibOf(df, rebuild_indexes(lib.l1, lib.l2c, df))

\* str(cell) of a CSV cell read by pandas: an empty cell is NaN
CsvStr(cell) == IF cell = <<>> THEN NAN ELSE cell

\* v is int(cell): Ok(the int as a value) or the exception
IntCell(v) == IF v.exc # "" THEN Raise(v.exc) ELSE Ok(PyInt(v.val))

\* int(r.get(col, 0)) if not pd.isna(r.get(col, 0)) else None
CsvInt(cell) == IF cell.t = "none" THEN Ok(PyNone) ELSE IntCell(to_int(cell))

\* load_spheres_into_memory: the force_recalc_row call for one CSV row,
\* given its l1 and l2c arguments
CsvRowOf(r, l1, l2c) ==
  IF l1.exc # "" THEN Raise(l1.exc)
  ELSE IF l2c.exc # "" THEN Raise(l2c.exc)
  ELSE force_recalc_row(upper(CsvStr(r.word)), CsvStr(r.sphere),
                        CsvStr(r.tone), parse_bool(r.allowed),
                        CsvStr(r.notes), l1.val, l2c.val,
                        strip(CsvStr(r.field)), strip(CsvStr(r.role)))

\* load_spheres_into_memory: the force_recalc_row call for one CSV row
CsvRow(r) == CsvRowOf(r, CsvInt(r.l1), CsvInt(r.l2c))

RECURSIVE CsvFileRows(_, _)

\* load_spheres_into_memory: rows.append(row); a row that raises ends the
\* file, the rows appended before it stay
CsvFileNext(file, rows, row) ==
  IF row.exc # "" THEN rows
  ELSE CsvFileRows(Tail(file), Append(rows, row.val))

\* load_spheres_into_memory: the rows of one file
CsvFileRows(file, rows) ==
  IF file = <<>> THEN rows ELSE CsvFileNext(file, rows, CsvRow(Head(file)))

RECURSIVE CsvDirRows(_, _)
CsvDirRows(files, rows) ==
  IF files = <<>> THEN rows
  ELSE CsvDirRows(Tail(files), CsvFileRows(Head(files), rows))

\* load_spheres_into_memory after df = soft_dedup(df)
LoadedOf(lib, df) ==
  IF df.exc # "" THEN [lib |-> lib, exc |-> df.exc]
  ELSE [lib |-> Replace(lib, df.val), exc |-> ""]

\* load_spheres_into_memory() on the files of ./spheres
load_spheres_into_memory(lib, files) ==
  LoadedOf(lib, soft_dedup(CsvDirRows(files, <<>>)))

\* _ensure_lib_loaded(): loads when the library is None or empty, and
\* swallows the exception of the load
ensure_lib_loaded(lib, files) ==
  IF lib.df = <<>> THEN load_spheres_into_memory(lib, files).lib ELSE lib

\* it.get(key) or default
OrDefault(x, default) == IF x = <<>> THEN default ELSE x

\* import_json_library: the body of the loop for one item of the given word;
\* Ok(<<>>) when the item is skipped
ImportRowOf(it, word) ==
  IF word = <<>> THEN Ok(<<>>)
  ELSE AppendRow(force_recalc_row(word,
                                  strip(OrDefault(it.sphere, PROCHEE)),
                                  strip(OrDefault(it.tone, NEUTRAL)),
                                  parse_bool(it.allowed), it.notes, it.l1,
                                  it.l2c, strip(it.field), strip(it.role)))

\* import_json_library: the body of the loop for one item
ImportRow(it) ==
  ImportRowOf(it, upper(strip(OrDefault(OrDefault(it.word, it.text), <<>>))))

RECURSIVE ImportRows(_, _)

\* import_json_library: the loop after the body gave r for the first item
ImportNext(items, rows, r) ==
  IF r.exc # "" THEN Raise(r.exc)
  ELSE ImportRows(Tail(items), rows \o r.val)

\* import_json_library: the loop over the items
ImportRows(items, rows) ==
  IF items = <<>> THEN Ok(rows)
  ELSE ImportNext(items, rows, ImportRow(Head(items)))

\* import_json_library from LIB_DF = merged.copy() on
ImportMerged(loaded, merged) ==
  IF merged.exc # "" THEN [lib |-> loaded, exc |-> merged.exc]
  ELSE [lib |-> Replace(loaded, merged.val), exc |-> ""]

\* import_json_library from _ensure_lib_loaded() on; df_new is the result of
\* soft_dedup(df_new), loaded the library _ensure_lib_loaded leaves
ImportMerge(lib, df_new, loaded) ==
  IF df_new.exc # "" THEN [lib |-> lib, exc |-> df_new.exc]
  ELSE ImportMerged(loaded,
                    IF loaded.df = <<>> THEN df_new
                    ELSE soft_dedup(loaded.df \o df_new.val))

\* import_json_library from df_new = pd.DataFrame(rows) on
ImportFrame(lib, files, rows) ==
  IF rows.exc # "" THEN [lib |-> lib, exc |-> rows.exc]
  ELSE IF rows.val = <<>> THEN [lib |-> lib, exc |-> "KeyError"]
  ELSE ImportMerge(lib, soft_dedup(rows.val), ensure_lib_loaded(lib, files))

\* import_json_library(file_obj) on the items of the file; the handler
\* catches every exception and reports it
import_json_library(lib, files, items) ==
  ImportFrame(lib, files, ImportRows(items, <<>>))

\* re.split(r"[\n,;]+", raw_text)
IsSeparator(c) == c \in {10, 44, 59}

RECURSIVE Split(_, _, _)
Split(text, piece, out) ==
  IF text = <<>> THEN Append(out, piece)
  ELSE IF IsSeparator(Head(text)) THEN Split(Tail(text), <<>>, Append(out, piece))
  ELSE Split(Tail(text), Append(piece, Head(text)), out)

\* [normalize(x) for x in pieces if normalize(x)]
RECURSIVE NormalizedItems(_)
NormalizedItems(pieces) ==
  IF pieces = <<>> THEN <<>>
  ELSE (IF normalize(Head(pieces)) # <<>> THEN <<normalize(Head(pieces))>> ELSE <<>>)
         \o NormalizedItems(Tail(pieces))

resolve_sphere(sphere_choice, create_new, new_sphere) ==
  IF create_new /\ new_sphere # <<>> /\ strip(new_sphere) # <<>>
  THEN strip(new_sphere)
  ELSE IF sphere_choice # <<>> /\ strip(sphere_choice) # <<>>
  THEN strip(sphere_choice)
  ELSE PROCHEE

RECURSIVE AddRows(_, _, _)

\* add_words_to_library: rows.append(r) for the row force_recalc_row gave
AddNext(items, sphere_name, rows, r) ==
  IF r.exc # "" THEN Raise(r.exc)
  ELSE AddRows(Tail(items), sphere_name, Append(rows, r.val))

\* add_words_to_library: the loop over the items
AddRows(items, sphere_name, rows) ==
  IF items = <<>> THEN Ok(rows)
  ELSE AddNext(items, sphere_name, rows,
               force_recalc_row(Head(items), sphere_name, NEUTRAL, TRUE, <<>>,
                                PyNone, PyNone, <<>>, <<>>))

\* add_words_to_library from LIB_DF = merged.copy() on
AddMerged(loaded, merged) ==
  IF merged.exc # "" THEN [lib |-> loaded, exc |-> merged.exc, ret |-> ""]
  ELSE [lib |-> Replace(loaded, merged.val), exc |-> "", ret |-> ""]

\* add_words_to_library from df_new = pd.DataFrame(rows) on
AddMerge(loaded, rows) ==
  IF rows.exc # "" THEN [lib |-> loaded, exc |-> rows.exc, ret |-> ""]
  ELSE AddMerged(loaded, soft_dedup(loaded.df \o rows.val))

\* add_words_to_library from `if not items` on
AddItems(loaded, items, sphere_name) ==
  IF items = <<>> THEN [lib |-> loaded, exc |-> "", ret |-> "no_words"]
  ELSE AddMerge(loaded, AddRows(items, sphere_name, <<>>))

\* add_words_to_library after _ensure_lib_loaded() left the library loaded
AddText(loaded, raw_text, sphere_choice, create_new, new_sphere) ==
  IF strip(raw_text) = <<>> THEN [lib |-> loaded, exc |-> "", ret |-> "no_text"]
  ELSE AddItems(loaded, NormalizedItems(Split(raw_text, <<>>, <<>>)),
                resolve_sphere(sphere_choice, create_new, new_sphere))

\* add_words_to_library(raw_text, sphere_choice, create_new, new_sphere);
\* ret is "" when it went through, the message kind when it returned early
add_words_to_library(lib, files, raw_text, sphere_choice, create_new, new_sphere) ==
  AddText(ensure_lib_loaded(lib, files), raw_text, sphere_choice, create_new,
          new_sphere)

----------------------------------------------------------------------------
(* Configuration *)

\* DEFAULT_CONFIG: sigma_Z = 0.80, resonator_threshold = 0.75
DEFAULT_CONFIG == [sigma_Z |-> 8000, resonator_threshold |-> 7500]

\* the sigma_Z values the settings form is given (any number is accepted)
SigmaValues == {0, 100, 5000, 8000, 20000}

\* the resonator_threshold values the settings form is given
ThresholdValues == {7500}

\* set_cfg_values(sigma, reson_thr, bounds): the configuration it leaves
set_cfg_values(cfg, sigma, reson_thr) ==
  [cfg EXCEPT !.sigma_Z = sigma, !.resonator_threshold = reson_thr]

----------------------------------------------------------------------------
(* The FII and its bar, in fixed point *)

\* round(x) for x = num / den, den > 0: to the nearest integer, a tie to the
\* even one
RoundHalfEven(num, den) ==
  IF 2 * (num % den) > den THEN (num \div den) + 1
  ELSE IF 2 * (num % den) < den THEN num \div den
  ELSE IF (num \div den) % 2 = 0 THEN num \div den
  ELSE (num \div den) + 1

\* segments without the clamp to 0..10
SegmentsUnclamped(fii) == RoundHalfEven(fii + 10 * SCALE, 2 * SCALE)

\* segments = max(0, min(10, round((fii + 10) / 2)))
Segments(fii) == Max2(0, Min2(10, RoundHalfEven(fii + 10 * SCALE, 2 * SCALE)))

\* s * n for a one-character str s: empty for n <= 0
Repeat(s, n) == [i \in 1..n |-> s]

\* bar = filled * segments + hollow * (10 - segments)
BarOf(segments) == Repeat("filled", segments) \o Repeat("hollow", 10 - segments)

\* the if / elif chain of fii_bar
FiiCategory(fii) ==
  IF fii <= (0 - 6) * SCALE THEN "Destroyer"
  ELSE IF fii <= (0 - 2) * SCALE THEN "Dissipator"
  ELSE IF fii < 2 * SCALE THEN "Neutral"
  ELSE IF fii < 6 * SCALE THEN "Harmonizer"
  ELSE "Resonator"

\* fii_bar(fii): (bar, cat)
fii_bar(fii) == [bar |-> BarOf(Segments(fii)), cat |-> FiiCategory(fii)]

\* q_total = (Z + C + Hm) / 3.0
QTotal(Z, C, Hm) == (Z + C + Hm) \div 3

\* the FII without its centring term
FiiUncentred(Z, q_total, C, Hm) == 4 * Z + 3 * q_total + 2 * C + Hm

\* fii = 10 * (0.4 * Z + 0.3 * q_total + 0.2 * C + 0.1 * Hm - 0.5)
Fii(Z, q_total, C, Hm) == 4 * Z + 3 * q_total + 2 * C + Hm - 5 * SCALE

----------------------------------------------------------------------------
(* Analysis *)

\* the empty dict analyze_word returns when there is nothing to analyse
EmptyResult ==
  [empty |-> TRUE, raw |-> <<>>, phrase_used |-> <<>>, norm |-> <<>>,
   l1 |-> 0, l2c |-> 0, w |-> [n |-> 0, d |-> 1], C |-> 0, Hm |-> 0, Z |-> 0,
   q_total |-> 0, fii |-> 0, fii_bar |-> <<>>, fii_category |-> "",
   fractal_pattern |-> <<>>]

\* an analysis answered from the library row of the word, when there is one
analyze_word_from_library(raw_input) ==
  LET c == calc_l1_from_string(raw_input)
      Hit(row) == row.word = c.norm /\ row.l1 # None
      hits == SelectSeq(LIB_DF, Hit)
  IN  IF hits = <<>> THEN Ok(EmptyResult)
      ELSE Ok([EmptyResult EXCEPT
                 !.empty = FALSE, !.raw = raw_input, !.phrase_used = raw_input,
                 !.norm = c.norm, !.l1 = hits[1].l1[1], !.l2c = hits[1].l2c[1],
                 !.w = hits[1].w[1], !.C = hits[1].C[1], !.Hm = hits[1].Hm[1],
                 !.Z = hits[1].Z[1]])

\* analyze_word: the dict returned, given the metrics m and the fractal
\* unfolding f
AnalysisOf(raw_input, c, l2c, m, f) ==
  IF m.exc # "" THEN Raise(m.exc)
  ELSE IF f.exc # "" THEN Raise(f.exc)
  ELSE Ok([empty |-> FALSE, raw |-> raw_input, phrase_used |-> raw_input,
           norm |-> c.norm, l1 |-> c.l1, l2c |-> l2c, w |-> m.w,
           C |-> m.C, Hm |-> m.Hm, Z |-> m.Z,
           q_total |-> QTotal(m.Z, m.C, m.Hm),
           fii |-> Fii(m.Z, QTotal(m.Z, m.C, m.Hm), m.C, m.Hm),
           fii_bar |-> fii_bar(Fii(m.Z, QTotal(m.Z, m.C, m.Hm), m.C, m.Hm)).bar,
           fii_category |->
             fii_bar(Fii(m.Z, QTotal(m.Z, m.C, m.Hm), m.C, m.Hm)).cat,
           fractal_pattern |-> f.pattern])

\* analyze_word after calc_l2c_from_l1(l1) gave r
AnalyzeCode(raw_input, c, r) ==
  IF r.exc # "" THEN Raise(r.exc)
  ELSE IF r.out_of_range \/ r.l2c = None THEN Ok(EmptyResult)
  ELSE AnalysisOf(raw_input, c, r.l2c[1], metrics(c.l1, r.l2c[1]),
                  fractal_unfold(c.l1))

\* analyze_word after calc_l1_from_string(src) gave c
AnalyzeSrc(raw_input, c) ==
  IF c.l1 = 0 THEN Ok(EmptyResult)
  ELSE AnalyzeCode(raw_input, c, calc_l2c_from_l1(c.l1))

\* analyze_word(raw_input) for a raw_input that DATE_RE does not match
\* (parse_date_phrase gives None, so src is raw_input): Ok(result) or the
\* exception
analyze_word(raw_input) ==
  AnalyzeSrc(raw_input, calc_l1_from_string(raw_input))

\* on_calc: what LAST_RESULT holds after the analysis res of the input w1
LastResultOf(w1, res) ==
  [input |-> w1, phrase_used |-> res.phrase_used, l1 |-> res.l1,
   l2c |-> res.l2c, w |-> res.w, C |-> res.C, Hm |-> res.Hm, Z |-> res.Z]

----------------------------------------------------------------------------
(* Inputs *)

W_MIR == Cyr(<<"M", "I", "R">>)
W_RIM == Cyr(<<"R", "I", "M">>)
W_YA == Cyr(<<"YA">>)
S_DOM == lower(Cyr(<<"D", "O", "M">>))
S_LES == lower(Cyr(<<"L", "E", "S">>))
N_A == <<97>>
N_B == <<98>>
T_TRUE == <<84, 114, 117, 101>>
T_X == <<120>>
SEMI == <<59>>

\* a JSON item or a CSV row as it is read: absent keys and empty cells are <<>>
\* (strings) or PyNone (values)
Raw(word, sphere, tone, allowed, notes, l1, l2c) ==
  [word |-> word, text |-> <<>>, sphere |-> sphere, tone |-> tone,
   allowed |-> allowed, notes |-> notes, l1 |-> l1, l2c |-> l2c,
   field |-> <<>>, role |-> <<>>]

J_MIR == Raw(W_MIR, S_DOM, NEUTRAL, PyBool(TRUE), N_A, PyNone, PyNone)
\* the same word, not normalised, carrying numbers that are not its own
J_MIR_BANG ==
  Raw(W_MIR \o BANG, S_DOM, <<>>, PyBool(FALSE), N_B, PyInt(7), PyInt(9))
J_RIM ==
  Raw(SP \o lower(W_RIM), SP \o S_DOM \o SP, NEUTRAL,
      PyStr(lower(Cyr(<<"D", "A">>))), <<>>, PyNone, PyNone)
\* a word with no Cyrillic letter: its code is 0
J_BANG == Raw(BANG, S_DOM, NEUTRAL, PyBool(TRUE), <<>>, PyNone, PyNone)
\* an l1 that is no number
J_YA_BAD == Raw(W_YA, <<>>, <<>>, PyNone, <<>>, PyStr(T_X), PyNone)
\* no word and no text: the item is skipped
J_EMPTY == Raw(<<>>, S_LES, NEUTRAL, PyBool(TRUE), <<>>, PyNone, PyNone)
\* the l1 of another word (42 is the code of W_MIR)
J_YA_42 == Raw(W_YA, S_LES, NEUTRAL, PyBool(TRUE), N_A, PyInt(42), PyNone)

\* the word of J_MIR again, in its group, with other notes, a field and a role
F_X == <<102, 49>>
F_Y == <<102, 50>>
J_MIR_B ==
  [J_MIR EXCEPT !.allowed = PyBool(FALSE), !.notes = N_B, !.field = F_X,
                !.role = SP \o F_Y]
\* and once more, with the notes of J_MIR, another field and no role
J_MIR_C == [J_MIR EXCEPT !.allowed = PyBool(FALSE), !.field = F_Y]

\* the library files the import handler is given
ImportFiles ==
  { <<J_MIR>>, <<J_MIR_BANG>>, <<J_MIR_BANG, J_MIR>>, <<J_RIM, J_YA_42>>,
    <<J_YA_42, J_EMPTY>>, <<J_EMPTY>>, <<J_MIR, J_BANG>>, <<J_YA_BAD>> }

K_MIR == Raw(W_MIR, S_DOM, NEUTRAL, PyBool(TRUE), <<>>, PyInt(42), PyInt(90))
\* an untrimmed sphere and a stored l1 that is not the word's own
K_RIM == Raw(W_RIM, S_DOM \o SP, NEUTRAL, PyStr(T_TRUE), N_B, PyInt(5), PyNone)
K_YA == Raw(W_YA, S_LES, NEUTRAL, PyBool(FALSE), <<>>, PyNone, PyNone)
K_BAD == Raw(W_RIM, S_LES, NEUTRAL, PyBool(TRUE), <<>>, PyStr(T_X), PyNone)
K_mir == Raw(lower(W_MIR), S_LES, NEUTRAL, PyBool(TRUE), N_A, PyNone, PyNone)

\* the contents ./spheres can have: no file; one file; two files, the first
\* with a row that cannot be read after its first row
SphereDirs ==
  { <<>>,
    << <<K_MIR, K_RIM>> >>,
    << <<K_YA, K_BAD, K_MIR>>, <<K_mir>> >> }

\* the inputs of the "add words" form
AddInputs ==
  { [raw_text |-> lower(W_MIR), sphere_choice |-> S_DOM, create_new |-> FALSE,
     new_sphere |-> <<>>],
    [raw_text |-> W_RIM \o SEMI \o SP \o lower(W_YA) \o BANG,
     sphere_choice |-> <<>>, create_new |-> TRUE,
     new_sphere |-> SP \o S_LES \o SP],
    [raw_text |-> BANG, sphere_choice |-> S_DOM, create_new |-> FALSE,
     new_sphere |-> <<>>],
    [raw_text |-> SP, sphere_choice |-> S_DOM, create_new |-> FALSE,
     new_sphere |-> <<>>] }

\* the words given to the analysis
AnalyzeInputs == {W_MIR, lower(W_YA) \o BANG}

\* the sigma_Z values given to the settings form next to a library: a narrow
\* bell, and 0, which float(sigma) accepts like any other number
LibSigmaValues == {0, 100}

----------------------------------------------------------------------------
(* State: the values of the variables a specification does not use *)

Threads == {1, 2}

NoHistory == [first |-> [r \in AnalyzeInputs |-> <<>>], latest |-> <<>>]

IdleRebuilder ==
  [pc |-> "idle", df |-> <<>>, i |-> 0, runs |-> 0,
   before |-> [l1 |-> EmptyIndex, l2c |-> EmptyIndex, ready |-> FALSE]]

IdleReader ==
  [pc |-> "idle", kind |-> "", l1 |-> 0, l2c |-> 0, current |-> <<>>,
   out_l1 |-> <<>>, out_l2c |-> <<>>, complete |-> {}]

IdleSaver == [pc |-> "idle", groups |-> <<>>, saved_paths |-> <<>>, ret |-> ""]

IdleAdder ==
  [pc |-> "idle", entry |-> <<>>, df |-> <<>>, already |-> FALSE, ret |-> "",
   exc |-> ""]

IdleCommitter ==
  [pc |-> "idle", paths |-> <<>>, attempt |-> 0, tries |-> 0, sleeps |-> <<>>,
   ret |-> "", exc |-> "", calls |-> 0]

EmptyLib == [df |-> <<>>, l1 |-> EmptyIndex, l2c |-> EmptyIndex, ready |-> FALSE]

Lib == [df |-> LIB_DF, l1 |-> INDEX_L1, l2c |-> INDEX_L2C, ready |-> INDEX_READY]

SetLib(lib) ==
  /\ LIB_DF' = lib.df
  /\ INDEX_L1' = lib.l1
  /\ INDEX_L2C' = lib.l2c
  /\ INDEX_READY' = lib.ready

PureIdle == fn = "" /\ arg = 0 /\ ret = None /\ pc = "idle"

LibIdle ==
  /\ LIB_DF = <<>>
  /\ INDEX_L1 = EmptyIndex
  /\ INDEX_L2C = EmptyIndex
  /\ INDEX_READY = FALSE

OpIdle ==
  /\ sphere_files = <<>>
  /\ last_op = [name |-> "start", exc |-> ""]
  /\ steps = 0
  /\ history = NoHistory

ConcIdle ==
  rebuilder = IdleRebuilder /\ reader = IdleReader /\ saver = IdleSaver

PersIdle ==
  /\ PERSONAL_CSV = None
  /\ tmp_csv = None
  /\ MUTEX = 0
  /\ adder = [t \in Threads |-> IdleAdder]

CommitIdle ==
  /\ HF_ENABLED = FALSE
  /\ local_files = {}
  /\ committer = IdleCommitter
  /\ remote = <<>>

----------------------------------------------------------------------------
(* Pure functions under call: Init draws the argument, the action applies  *)
(* the function.                                                           *)

\* the largest argument of the dense low range of sampled codes
MaxDenseL1 == 1200

\* how far beyond each end of 0..CODE_MAX the sampled codes go
RangeMargin == 3

\* the longest collection given to soft_dedup
MaxRows == 2

ThousandsSamples ==
  {1, 2, 3, 4, 5, 10, 11, 12, 14, 15, 20, 21, 22, 25, 100, 101, 111, 112,
   121, 500, 900, 999}

RemainderSamples ==
  {0, 1, 2, 5, 10, 11, 19, 20, 21, 99, 100, 101, 110, 111, 500, 999}

\* sampled codes inside 0..CODE_MAX
InRangeSamples ==
  (0..MaxDenseL1)
    \cup {T * 1000 + R : T \in ThousandsSamples, R \in RemainderSamples}
    \cup ((CODE_MAX - RangeMargin)..CODE_MAX)

\* sampled codes outside 0..CODE_MAX
OutOfRangeSamples ==
  ((0 - RangeMargin)..(0 - 1))
    \cup ((CODE_MAX + 1)..(CODE_MAX + RangeMargin))
    \cup {CODE_MAX * 10, 0 - CODE_MAX}

L1Samples == InRangeSamples \cup OutOfRangeSamples

JsonItems == UNION {{f[i] : i \in DOMAIN f} : f \in ImportFiles}

CsvFiles == UNION {{d[k] : k \in DOMAIN d} : d \in SphereDirs}

CsvItems == UNION {{f[i] : i \in DOMAIN f} : f \in CsvFiles}

\* items whose rows share the group of J_MIR
GroupItems == {J_MIR_B, J_MIR_C}

\* the rows the import and the load hand to soft_dedup: one for each item
\* of the inputs above that can be read
RowPool ==
  {ImportRow(it).val[1] :
     it \in {j \in JsonItems \cup GroupItems :
               ImportRow(j).exc = "" /\ ImportRow(j).val # <<>>}}
    \cup {CsvRow(r).val : r \in {k \in CsvItems : CsvRow(k).exc = ""}}

\* the sequences over S of length at most n
SeqsUpTo(S, n) == UNION {[1..k -> S] : k \in 0..n}

PureInit(f, args, cfgs) ==
  /\ APP_CFG \in cfgs
  /\ fn = f
  /\ arg \in args
  /\ ret = None
  /\ pc = "call"
  /\ LibIdle /\ OpIdle /\ ConcIdle /\ LAST_RESULT = None /\ PersIdle
  /\ CommitIdle

Return(r) ==
  /\ ret' = r
  /\ pc' = "done"
  /\ UNCHANGED <<APP_CFG, fn, arg, libVars, opVars, concVars, LAST_RESULT,
                 persVars, commitVars>>

Call_calc_l2c_from_l1 ==
  /\ pc = "call" /\ fn = "calc_l2c_from_l1"
  /\ Return(calc_l2c_from_l1(arg))

\* metrics on a code and its derived L2C
Call_metrics ==
  /\ pc = "call" /\ fn = "metrics"
  /\ Return(metrics(arg, calc_l2c_from_l1(arg).l2c[1]))

Call_fractal_unfold ==
  /\ pc = "call" /\ fn = "fractal_unfold"
  /\ Return(fractal_unfold(arg))

Call_soft_dedup ==
  /\ pc = "call" /\ fn = "soft_dedup"
  /\ Return(soft_dedup(arg))

InitL2C == PureInit("calc_l2c_from_l1", L1Samples, {DEFAULT_CONFIG})
SpecL2C == InitL2C /\ [][Call_calc_l2c_from_l1]_vars

InitMetrics ==
  PureInit("metrics", InRangeSamples \ {0},
           {[DEFAULT_CONFIG EXCEPT !.sigma_Z = s] : s \in SigmaValues})
SpecMetrics == InitMetrics /\ [][Call_metrics]_vars

InitFractal == PureInit("fractal_unfold", L1Samples, {DEFAULT_CONFIG})
SpecFractal == InitFractal /\ [][Call_fractal_unfold]_vars

InitDedup == PureInit("soft_dedup", SeqsUpTo(RowPool, MaxRows), {DEFAULT_CONFIG})
SpecDedup == InitDedup /\ [][Call_soft_dedup]_vars

----------------------------------------------------------------------------
(* The library under its handlers: import, add words and load, one        *)
(* handler at a time.                                                      *)

\* how many library handlers run in one behaviour
MaxSteps == 2

LibOthers == <<pureVars, concVars, persVars, commitVars>>

LibInit(cfgs, dirs) ==
  /\ APP_CFG \in cfgs
  /\ PureIdle
  /\ LibIdle
  /\ sphere_files \in dirs
  /\ last_op = [name |-> "start", exc |-> ""]
  /\ steps = 0
  /\ history = NoHistory
  /\ ConcIdle /\ LAST_RESULT = None /\ PersIdle /\ CommitIdle

\* the analyses on record have a library handler after them
Moved(h) ==
  [h EXCEPT !.first = [r \in DOMAIN h.first |->
                         IF h.first[r] = <<>> THEN <<>>
                         ELSE <<[h.first[r][1] EXCEPT !.moved = TRUE]>>]]

\* a library handler has run and left lib, ending with exc
LibStep(name, lib, exc) ==
  /\ steps < MaxSteps
  /\ SetLib(lib)
  /\ last_op' = [name |-> name, exc |-> exc]
  /\ steps' = steps + 1
  /\ history' = Moved(history)
  /\ UNCHANGED <<APP_CFG, sphere_files, LAST_RESULT, LibOthers>>

ImportJson(files) ==
  \E items \in files :
    LET r == import_json_library(Lib, sphere_files, items)
    IN  LibStep("import_json_library", r.lib, r.exc)

AddWords(inputs) ==
  \E a \in inputs :
    LET r == add_words_to_library(Lib, sphere_files, a.raw_text,
                                  a.sphere_choice, a.create_new, a.new_sphere)
    IN  LibStep("add_words_to_library", r.lib, r.exc)

LoadSpheres ==
  LET r == load_spheres_into_memory(Lib, sphere_files)
  IN  LibStep("load_spheres_into_memory", r.lib, r.exc)

LibNext ==
  \/ ImportJson(ImportFiles)
  \/ AddWords(AddInputs)
  \/ LoadSpheres

\* the configurations a library is built under: the default one, and one
\* under which metrics raises
LibConfigs == {DEFAULT_CONFIG, [DEFAULT_CONFIG EXCEPT !.sigma_Z = 0]}

SpecLib == LibInit(LibConfigs, SphereDirs) /\ [][LibNext]_vars

----------------------------------------------------------------------------
(* Analyses between library handlers and changes of the settings *)

\* the analysis res of raw, recorded: the first one of raw since the
\* configuration changed is kept, and the latest one of all
Recorded(h, raw, res) ==
  [first |-> IF h.first[raw] = <<>>
             THEN [h.first EXCEPT ![raw] = <<[moved |-> FALSE, res |-> res]>>]
             ELSE h.first,
   latest |-> <<[raw |-> raw,
                 later |-> h.first[raw] # <<>> /\ h.first[raw][1].moved,
                 res |-> res]>>]

\* on_calc (word mode) on the input w1: _ensure_lib_loaded(), analyze_word,
\* LAST_RESULT
OnCalcOf(w1) ==
  LET res == analyze_word(w1)
  IN  /\ SetLib(ensure_lib_loaded(Lib, sphere_files))
      /\ last_op' = [name |-> "on_calc", exc |-> res.exc]
      /\ history' = IF res.exc # "" THEN history
                    ELSE Recorded(history, w1, res.val)
      /\ LAST_RESULT' = IF res.exc # "" \/ res.val.empty THEN LAST_RESULT
                        ELSE Some(LastResultOf(w1, res.val))
      /\ UNCHANGED <<APP_CFG, sphere_files, steps, LibOthers>>

OnCalc == \E w1 \in AnalyzeInputs : OnCalcOf(w1)

\* the settings form: set_cfg_values
SetCfg ==
  \E sigma \in LibSigmaValues, thr \in ThresholdValues :
    /\ APP_CFG' = set_cfg_values(APP_CFG, sigma, thr)
    /\ history' = NoHistory
    /\ last_op' = [name |-> "set_cfg_values", exc |-> ""]
    /\ UNCHANGED <<libVars, sphere_files, steps, LAST_RESULT, LibOthers>>

\* the settings form: reset_to_defaults
ResetCfg ==
  /\ APP_CFG' = DEFAULT_CONFIG
  /\ history' = NoHistory
  /\ last_op' = [name |-> "reset_to_defaults", exc |-> ""]
  /\ UNCHANGED <<libVars, sphere_files, steps, LAST_RESULT, LibOthers>>

\* the library inputs next to the analyses
DetImportFiles == { <<J_MIR_BANG, J_MIR>> }
DetAddInputs == {a \in AddInputs : a.create_new}
DetSphereDirs == {d \in SphereDirs : Len(d) < 2}

DetNext ==
  \/ ImportJson(DetImportFiles)
  \/ AddWords(DetAddInputs)
  \/ LoadSpheres
  \/ OnCalc
  \/ SetCfg
  \/ ResetCfg

SpecDet == LibInit({DEFAULT_CONFIG}, DetSphereDirs) /\ [][DetNext]_vars

----------------------------------------------------------------------------
(* An index reader next to rebuild_indexes: the handlers run on threads,   *)
(* and a thread can be switched between any two statements.                *)

\* how many rebuilds run in one behaviour
MaxRebuilds == 2

\* the libraries a rebuild is given: what a load leaves for each content of
\* ./spheres
ConcLibraries == {soft_dedup(CsvDirRows(d, <<>>)).val : d \in SphereDirs}

\* the index of the library df, complete
IndexOf(df) == rebuild_indexes(EmptyIndex, EmptyIndex, df)

\* the index as it stands
IndexNow == [l1 |-> INDEX_L1, l2c |-> INDEX_L2C, ready |-> INDEX_READY]

\* the arguments of a reader: the codes and the word of an analysis
CodesOf(raw) ==
  LET c == calc_l1_from_string(raw)
  IN  [l1 |-> c.l1, l2c |-> calc_l2c_from_l1(c.l1).l2c[1],
       current |-> upper(c.norm)]

\* [w for w in INDEX[code] if w != current], when code is in INDEX
Matches(index, code, current) ==
  LET Other(w) == w # current
  IN  IF code \in DOMAIN index THEN SelectSeq(index[code], Other) ELSE <<>>

\* what a reader with the arguments q returns on the index ix, read at once
Lookup(ix, q) ==
  IF ix.ready
  THEN [l1 |-> Matches(ix.l1, q.l1, q.current),
        l2c |-> Matches(ix.l2c, q.l2c, q.current)]
  ELSE [l1 |-> <<>>, l2c |-> <<>>]

ConcOthers ==
  <<APP_CFG, pureVars, opVars, saver, LAST_RESULT, persVars, commitVars>>

ConcInit ==
  /\ APP_CFG = DEFAULT_CONFIG
  /\ PureIdle
  /\ \E df \in ConcLibraries :
       /\ LIB_DF = df
       /\ INDEX_L1 = IndexOf(df).l1
       /\ INDEX_L2C = IndexOf(df).l2c
       /\ INDEX_READY = IndexOf(df).ready
  /\ OpIdle /\ ConcIdle /\ LAST_RESULT = None /\ PersIdle /\ CommitIdle

\* LIB_DF = df.copy(); rebuild_indexes(LIB_DF) is entered.  A reader under
\* way notes the index the rebuild is to leave.
RebuildStart ==
  \E df \in ConcLibraries :
    /\ rebuilder.pc = "idle" /\ rebuilder.runs < MaxRebuilds
    /\ LIB_DF' = df
    /\ rebuilder' = [rebuilder EXCEPT !.pc = "clear_l1", !.df = df, !.i = 1,
                                      !.runs = @ + 1, !.before = IndexNow]
    /\ reader' = IF reader.pc \in {"idle", "done"} THEN reader
                 ELSE [reader EXCEPT !.complete = @ \cup {IndexOf(df)}]
    /\ UNCHANGED <<INDEX_L1, INDEX_L2C, INDEX_READY, ConcOthers>>

\* INDEX_L1.clear()
RebuildClearL1 ==
  /\ rebuilder.pc = "clear_l1"
  /\ INDEX_L1' = Clear(INDEX_L1)
  /\ rebuilder' = [rebuilder EXCEPT !.pc = "clear_l2c"]
  /\ UNCHANGED <<LIB_DF, INDEX_L2C, INDEX_READY, reader, ConcOthers>>

\* INDEX_L2C.clear(); if df is None or df.empty
RebuildClearL2C ==
  /\ rebuilder.pc = "clear_l2c"
  /\ INDEX_L2C' = Clear(INDEX_L2C)
  /\ rebuilder' = [rebuilder EXCEPT
                     !.pc = IF rebuilder.df = <<>> THEN "not_ready" ELSE "row_l1"]
  /\ UNCHANGED <<LIB_DF, INDEX_L1, INDEX_READY, reader, ConcOthers>>

\* INDEX_READY = False; return
RebuildNotReady ==
  /\ rebuilder.pc = "not_ready"
  /\ INDEX_READY' = FALSE
  /\ rebuilder' = [rebuilder EXCEPT !.pc = "idle"]
  /\ UNCHANGED <<LIB_DF, INDEX_L1, INDEX_L2C, reader, ConcOthers>>

\* the L1 part of the loop body, for row i
RebuildRowL1 ==
  /\ rebuilder.pc = "row_l1"
  /\ INDEX_L1' = IndexRow(INDEX_L1, rebuilder.df[rebuilder.i].word,
                          rebuilder.df[rebuilder.i].l1)
  /\ rebuilder' = [rebuilder EXCEPT !.pc = "row_l2c"]
  /\ UNCHANGED <<LIB_DF, INDEX_L2C, INDEX_READY, reader, ConcOthers>>

\* the L2C part of the loop body, for row i, and the step to the next row
RebuildRowL2C ==
  /\ rebuilder.pc = "row_l2c"
  /\ INDEX_L2C' = IndexRow(INDEX_L2C, rebuilder.df[rebuilder.i].word,
                           rebuilder.df[rebuilder.i].l2c)
  /\ rebuilder' = IF rebuilder.i < Len(rebuilder.df)
                  THEN [rebuilder EXCEPT !.pc = "row_l1", !.i = @ + 1]
                  ELSE [rebuilder EXCEPT !.pc = "ready"]
  /\ UNCHANGED <<LIB_DF, INDEX_L1, INDEX_READY, reader, ConcOthers>>

\* INDEX_READY = True
RebuildReady ==
  /\ rebuilder.pc = "ready"
  /\ INDEX_READY' = TRUE
  /\ rebuilder' = [rebuilder EXCEPT !.pc = "idle"]
  /\ UNCHANGED <<LIB_DF, INDEX_L1, INDEX_L2C, reader, ConcOthers>>

\* fmt_matches_by_code or _collect_matches_by_code is entered with the codes
\* of an analysis.  The reader notes the complete indexes of its time: the
\* index as it stands, or with a rebuild under way the index the rebuild
\* found and the one it is to leave.
ReaderStart ==
  \E kind \in {"fmt_matches_by_code", "_collect_matches_by_code"},
     raw \in AnalyzeInputs :
    /\ reader.pc \in {"idle", "done"}
    /\ reader' = [pc |-> "if_ready", kind |-> kind, l1 |-> CodesOf(raw).l1,
                  l2c |-> CodesOf(raw).l2c, current |-> CodesOf(raw).current,
                  out_l1 |-> <<>>, out_l2c |-> <<>>,
                  complete |-> IF rebuilder.pc = "idle" THEN {IndexNow}
                               ELSE {rebuilder.before, IndexOf(rebuilder.df)}]
    /\ UNCHANGED <<libVars, rebuilder, ConcOthers>>

\* if INDEX_READY
ReaderIfReady ==
  /\ reader.pc = "if_ready"
  /\ reader' = [reader EXCEPT !.pc = IF INDEX_READY THEN "read_l1" ELSE "done"]
  /\ UNCHANGED <<libVars, rebuilder, ConcOthers>>

\* if l1 in INDEX_L1: the words of INDEX_L1[l1] other than the current one
ReaderReadL1 ==
  /\ reader.pc = "read_l1"
  /\ reader' = [reader EXCEPT
                  !.pc = "read_l2c",
                  !.out_l1 = Matches(INDEX_L1, reader.l1, reader.current)]
  /\ UNCHANGED <<libVars, rebuilder, ConcOthers>>

\* if l2c in INDEX_L2C: the words of INDEX_L2C[l2c] other than the current one
ReaderReadL2C ==
  /\ reader.pc = "read_l2c"
  /\ reader' = [reader EXCEPT
                  !.pc = "done",
                  !.out_l2c = Matches(INDEX_L2C, reader.l2c, reader.current)]
  /\ UNCHANGED <<libVars, rebuilder, ConcOthers>>

ConcNext ==
  \/ RebuildStart
  \/ RebuildClearL1
  \/ RebuildClearL2C
  \/ RebuildNotReady
  \/ RebuildRowL1
  \/ RebuildRowL2C
  \/ RebuildReady
  \/ ReaderStart
  \/ ReaderIfReady
  \/ ReaderReadL1
  \/ ReaderReadL2C

SpecConc == ConcInit /\ [][ConcNext]_vars

----------------------------------------------------------------------------
(* add_to_personal on two threads.  A file is None when absent, else       *)
(* Some(rows): the sequence of its rows.                                    *)

\* the row add_to_personal appends for the analysis r
PersonalRow(r) ==
  [text |-> r.input, phrase_used |-> r.phrase_used, l1 |-> r.l1,
   l2c |-> r.l2c, w |-> r.w, C |-> r.C, Hm |-> r.Hm, Z |-> r.Z]

\* already_in_personal(text, phrase) on the file
already_in_personal(file, text, phrase) ==
  /\ file # None
  /\ \E k \in DOMAIN file[1] :
       file[1][k].text = text /\ file[1][k].phrase_used = phrase

\* the paths add_to_personal commits
PERSONAL_PATHS == <<"./personal/personal.csv", "./personal/.keep">>
CONFIG_PATHS == <<"config.json">>

PersOthers == <<pureVars, concVars, HF_ENABLED, local_files, committer>>

PersInit ==
  /\ APP_CFG = DEFAULT_CONFIG
  /\ PureIdle /\ LibIdle /\ OpIdle /\ ConcIdle
  /\ LAST_RESULT = None
  /\ PERSONAL_CSV \in {None, Some(<<>>)}
  /\ tmp_csv = None
  /\ MUTEX = 0
  /\ adder = [t \in Threads |-> IdleAdder]
  /\ HF_ENABLED \in BOOLEAN
  /\ local_files = {}
  /\ committer = IdleCommitter
  /\ remote = <<>>

\* thread t moves to pc, with the fields of its record changed as given
AdderStep(t, rec) ==
  /\ adder' = [adder EXCEPT ![t] = rec]
  /\ UNCHANGED <<APP_CFG, libVars, opVars, LAST_RESULT, PersOthers>>

\* if not LAST_RESULT: return; text = LAST_RESULT["input"] ...
AddEnter(t) ==
  /\ adder[t].pc = "idle"
  /\ AdderStep(t, IF LAST_RESULT = None
                  THEN [adder[t] EXCEPT !.pc = "done", !.ret = "no_result"]
                  ELSE [adder[t] EXCEPT !.pc = "ensure",
                                        !.entry = Some(PersonalRow(LAST_RESULT[1]))])
  /\ UNCHANGED <<PERSONAL_CSV, tmp_csv, MUTEX, remote>>

\* ensure_personal_csv: if not os.path.exists(PERSONAL_CSV)
AddEnsure(t) ==
  /\ adder[t].pc = "ensure"
  /\ AdderStep(t, [adder[t] EXCEPT
                     !.pc = IF PERSONAL_CSV = None THEN "ensure_to_csv"
                            ELSE "check"])
  /\ UNCHANGED <<PERSONAL_CSV, tmp_csv, MUTEX, remote>>

\* ensure_personal_csv, atomic_write_csv: the empty frame .to_csv(tmp)
AddEnsureToCsv(t) ==
  /\ adder[t].pc = "ensure_to_csv"
  /\ tmp_csv' = Some(<<>>)
  /\ AdderStep(t, [adder[t] EXCEPT !.pc = "ensure_replace"])
  /\ UNCHANGED <<PERSONAL_CSV, MUTEX, remote>>

\* os.replace(tmp, path): FileNotFoundError when tmp is absent
OsReplace(t, next) ==
  IF tmp_csv = None
  THEN /\ AdderStep(t, [adder[t] EXCEPT !.pc = "done",
                                        !.exc = "FileNotFoundError"])
       /\ UNCHANGED <<PERSONAL_CSV, tmp_csv>>
  ELSE /\ PERSONAL_CSV' = tmp_csv
       /\ tmp_csv' = None
       /\ AdderStep(t, [adder[t] EXCEPT !.pc = next])

\* ensure_personal_csv, atomic_write_csv: os.replace(tmp, path)
AddEnsureReplace(t) ==
  /\ adder[t].pc = "ensure_replace"
  /\ OsReplace(t, "check")
  /\ UNCHANGED <<MUTEX, remote>>

\* if already_in_personal(text, phrase)
AddCheck(t) ==
  /\ adder[t].pc = "check"
  /\ AdderStep(t, IF already_in_personal(PERSONAL_CSV, adder[t].entry[1].text,
                                         adder[t].entry[1].phrase_used)
                  THEN [adder[t] EXCEPT !.pc = "acquire", !.already = TRUE]
                  ELSE [adder[t] EXCEPT !.pc = "read_csv"])
  /\ UNCHANGED <<PERSONAL_CSV, tmp_csv, MUTEX, remote>>

\* df = pd.read_csv(PERSONAL_CSV); df.loc[len(df)] = [...]
AddReadCsv(t) ==
  /\ adder[t].pc = "read_csv"
  /\ AdderStep(t, IF PERSONAL_CSV = None
                  THEN [adder[t] EXCEPT !.pc = "done",
                                        !.exc = "FileNotFoundError"]
                  ELSE [adder[t] EXCEPT
                          !.pc = "to_csv",
                          !.df = Append(PERSONAL_CSV[1], adder[t].entry[1])])
  /\ UNCHANGED <<PERSONAL_CSV, tmp_csv, MUTEX, remote>>

\* atomic_write_csv(df, PERSONAL_CSV): df.to_csv(tmp)
AddToCsv(t) ==
  /\ adder[t].pc = "to_csv"
  /\ tmp_csv' = Some(adder[t].df)
  /\ AdderStep(t, [adder[t] EXCEPT !.pc = "replace"])
  /\ UNCHANGED <<PERSONAL_CSV, MUTEX, remote>>

\* atomic_write_csv(df, PERSONAL_CSV): os.replace(tmp, path)
AddReplace(t) ==
  /\ adder[t].pc = "replace"
  /\ OsReplace(t, "acquire")
  /\ UNCHANGED <<MUTEX, remote>>

\* with MUTEX: entered
AddAcquire(t) ==
  /\ adder[t].pc = "acquire"
  /\ MUTEX = 0
  /\ MUTEX' = t
  /\ AdderStep(t, [adder[t] EXCEPT !.pc = "commit"])
  /\ UNCHANGED <<PERSONAL_CSV, tmp_csv, remote>>

\* msg = commit_ops([PERSONAL_CSV, .keep], ...): with mirroring enabled the
\* remote takes the file as it stands, or every attempt fails
AddCommit(t) ==
  /\ adder[t].pc = "commit"
  /\ \E ok \in BOOLEAN :
       remote' = IF HF_ENABLED /\ ok
                 THEN Append(remote, [paths |-> PERSONAL_PATHS,
                                      content |-> PERSONAL_CSV])
                 ELSE remote
  /\ AdderStep(t, [adder[t] EXCEPT !.pc = "release"])
  /\ UNCHANGED <<PERSONAL_CSV, tmp_csv, MUTEX>>

\* with MUTEX: left; return
AddRelease(t) ==
  /\ adder[t].pc = "release"
  /\ MUTEX' = 0
  /\ AdderStep(t, [adder[t] EXCEPT
                     !.pc = "done",
                     !.ret = IF adder[t].already THEN "already" ELSE "added"])
  /\ UNCHANGED <<PERSONAL_CSV, tmp_csv, remote>>

\* on_calc next to the threads: each input is analysed once
PersOnCalc ==
  \E w1 \in AnalyzeInputs : history.first[w1] = <<>> /\ OnCalcOf(w1)

PersNext ==
  \/ PersOnCalc
  \/ \E t \in Threads : AddEnter(t)
  \/ \E t \in Threads : AddEnsure(t)
  \/ \E t \in Threads : AddEnsureToCsv(t)
  \/ \E t \in Threads : AddEnsureReplace(t)
  \/ \E t \in Threads : AddCheck(t)
  \/ \E t \in Threads : AddReadCsv(t)
  \/ \E t \in Threads : AddToCsv(t)
  \/ \E t \in Threads : AddReplace(t)
  \/ \E t \in Threads : AddAcquire(t)
  \/ \E t \in Threads : AddCommit(t)
  \/ \E t \in Threads : AddRelease(t)

SpecPers == PersInit /\ [][PersNext]_vars

----------------------------------------------------------------------------
(* commit_ops, statement by statement *)

\* how many calls of commit_ops one behaviour makes
MaxCalls == 2

\* for attempt in range(4)
COMMIT_ATTEMPTS == 4

\* a wait that does not grow
ConstantDelay(attempt) == 1

\* time.sleep(2 ** attempt): the seconds slept after the failed attempt
BackoffDelay(attempt) == 2 ^ attempt

\* the paths handed to commit_ops
CommitPaths == {PERSONAL_PATHS, CONFIG_PATHS}

\* what the disk can hold of them
LocalFileSets ==
  { {PERSONAL_PATHS[1], PERSONAL_PATHS[2], CONFIG_PATHS[1]},
    {PERSONAL_PATHS[1], CONFIG_PATHS[1]},
    {} }

CommitOthers ==
  <<APP_CFG, pureVars, libVars, opVars, concVars, LAST_RESULT, persVars>>

CommitInit ==
  /\ APP_CFG = DEFAULT_CONFIG
  /\ PureIdle /\ LibIdle /\ OpIdle /\ ConcIdle /\ LAST_RESULT = None
  /\ PersIdle
  /\ HF_ENABLED \in BOOLEAN
  /\ local_files \in LocalFileSets
  /\ committer = IdleCommitter
  /\ remote = <<>>

\* commit_ops(paths, message) is entered: if not (HF_TOKEN and SPACE_REPO_ID)
CommitEnter ==
  \E paths \in CommitPaths :
    /\ committer.pc \in {"idle", "done"} /\ committer.calls < MaxCalls
    /\ committer' =
         [IdleCommitter EXCEPT
            !.calls = committer.calls + 1, !.paths = paths,
            !.pc = IF HF_ENABLED THEN "open" ELSE "done",
            !.ret = IF HF_ENABLED THEN "" ELSE "disabled"]
    /\ UNCHANGED <<HF_ENABLED, local_files, remote, CommitOthers>>

\* for p in paths: with open(p, "rb") ...; raises when a path is absent
CommitOpen ==
  /\ committer.pc = "open"
  /\ committer' =
       IF \A k \in DOMAIN committer.paths : committer.paths[k] \in local_files
       THEN [committer EXCEPT !.pc = "for"]
       ELSE [committer EXCEPT !.pc = "done", !.exc = "FileNotFoundError"]
  /\ UNCHANGED <<HF_ENABLED, local_files, remote, CommitOthers>>

\* for attempt in range(4): the next attempt, or the loop is over and the
\* warning is returned
CommitFor ==
  /\ committer.pc = "for"
  /\ committer' = IF committer.attempt < COMMIT_ATTEMPTS
                  THEN [committer EXCEPT !.pc = "create_commit"]
                  ELSE [committer EXCEPT !.pc = "done", !.ret = "warning"]
  /\ UNCHANGED <<HF_ENABLED, local_files, remote, CommitOthers>>

\* api.create_commit(...) succeeds: return
CommitSucceeds ==
  /\ committer.pc = "create_commit"
  /\ remote' = Append(remote, [paths |-> committer.paths, content |-> None])
  /\ committer' = [committer EXCEPT !.pc = "done", !.ret = "ok",
                                    !.tries = @ + 1]
  /\ UNCHANGED <<HF_ENABLED, local_files, CommitOthers>>

\* api.create_commit(...) raises
CommitFails ==
  /\ committer.pc = "create_commit"
  /\ committer' = [committer EXCEPT !.pc = "sleep", !.tries = @ + 1]
  /\ UNCHANGED <<HF_ENABLED, local_files, remote, CommitOthers>>

\* except Exception: time.sleep(2 ** attempt)
CommitSleep ==
  /\ committer.pc = "sleep"
  /\ committer' = [committer EXCEPT
                     !.pc = "for",
                     !.sleeps = Append(@, BackoffDelay(committer.attempt)),
                     !.attempt = @ + 1]
  /\ UNCHANGED <<HF_ENABLED, local_files, remote, CommitOthers>>

CommitNext ==
  \/ CommitEnter
  \/ CommitOpen
  \/ CommitFor
  \/ CommitSucceeds
  \/ CommitFails
  \/ CommitSleep

SpecCommit == CommitInit /\ [][CommitNext]_vars

----------------------------------------------------------------------------
(* Claims *)

\* C1: calc_l2c_from_l1(l1) gives the out-of-range outcome, and no L2C, for
\* every l1 < 0 and every l1 > 999999; for every l1 in 0..999999 it gives an
\* L2C, without the out-of-range flag and without raising.
C1_RangeOutcome ==
  (pc = "done" /\ fn = "calc_l2c_from_l1") =>
     /\ ret.exc = ""
     /\ IF arg < 0 \/ arg > 999999
        THEN ret.out_of_range /\ ret.l2c = None
        ELSE ~ret.out_of_range /\ ret.l2c # None /\ ret.l2c[1] >= 1

\* C1, witness: the call at the upper end of the range, 999999, has
\* returned its L2C
C1_Witness_Top ==
  pc = "done" /\ fn = "calc_l2c_from_l1" /\ arg = 999999 /\ ret.l2c = <<882>>

\* the rows of a DataFrame, as a set
RowSet(df) == {df[i] : i \in DOMAIN df}

\* C2: for any collection X of rows, soft_dedup(soft_dedup(X)) equals
\* soft_dedup(X): the second pass changes neither the set of rows nor any
\* field value.
C2_DedupIdempotent ==
  (pc = "done" /\ fn = "soft_dedup" /\ ret.exc = "") =>
     /\ soft_dedup(ret.val).exc = ""
     /\ RowSet(soft_dedup(ret.val).val) = RowSet(ret.val)
     /\ Len(soft_dedup(ret.val).val) = Len(ret.val)

Listed(index, code, word) ==
  code \in DOMAIN index /\ \E k \in DOMAIN index[code] : index[code][k] = word

\* C4: whenever a library handler has completed, the two indexes agree with
\* the library: every row with a numeric l1 (l2c) has its word listed under
\* that code, and every word listed under a code has a row with that code.
C4_IndexAgrees ==
  /\ \A i \in DOMAIN LIB_DF :
       /\ LIB_DF[i].l1 # None =>
            Listed(INDEX_L1, LIB_DF[i].l1[1], upper(LIB_DF[i].word))
       /\ LIB_DF[i].l2c # None =>
            Listed(INDEX_L2C, LIB_DF[i].l2c[1], upper(LIB_DF[i].word))
  /\ \A v \in DOMAIN INDEX_L1 : \A k \in DOMAIN INDEX_L1[v] :
       \E i \in DOMAIN LIB_DF :
         upper(LIB_DF[i].word) = INDEX_L1[v][k] /\ LIB_DF[i].l1 = <<v>>
  /\ \A v \in DOMAIN INDEX_L2C : \A k \in DOMAIN INDEX_L2C[v] :
       \E i \in DOMAIN LIB_DF :
         upper(LIB_DF[i].word) = INDEX_L2C[v][k] /\ LIB_DF[i].l2c = <<v>>
  /\ (LIB_DF # <<>> => INDEX_READY)

\* C4, witness: a load has replaced a library that an earlier handler had
\* built, and the index lists the two words of code 42
C4_Witness_Reloaded ==
  /\ last_op = [name |-> "load_spheres_into_memory", exc |-> ""]
  /\ steps = 2
  /\ INDEX_READY
  /\ 42 \in DOMAIN INDEX_L1 /\ Len(INDEX_L1[42]) = 2

\* C5: fractal_unfold(l1) makes at most 12 iterations and returns for every
\* l1; with l1 in range it yields exactly 12 W-values, a pattern of 11
\* inhale/exhale symbols and the terminal arrow.
C5_FractalTwelve ==
  (pc = "done" /\ fn = "fractal_unfold") =>
     /\ ret.exc = ""
     /\ ret.iters <= 12
     /\ (arg \in 0..999999 =>
           /\ Len(ret.w_values) = 12
           /\ Len(ret.pattern) = 12
           /\ ret.pattern[12] = "arrow"
           /\ \A i \in 1..11 : ret.pattern[i] \in {"inhale", "exhale"})

\* C6: with the configuration unchanged, an analysis of an input returns the
\* L1, L2C, W, C, Hm and Z that the first analysis of that input returned,
\* whatever library handlers and other analyses ran in between.
C6_AnalysisDeterministic ==
  history.latest # <<>> =>
    LET latest == history.latest[1]
        first == history.first[latest.raw][1]
    IN  /\ latest.res.empty = first.res.empty
        /\ latest.res.l1 = first.res.l1
        /\ latest.res.l2c = first.res.l2c
        /\ latest.res.w = first.res.w
        /\ latest.res.C = first.res.C
        /\ latest.res.Hm = first.res.Hm
        /\ latest.res.Z = first.res.Z

\* C6, witness: a word has been analysed again after a library handler ran,
\* with the library holding rows, and the analysis gave numbers
C6_Witness_AnalysedAgain ==
  /\ history.latest # <<>>
  /\ history.latest[1].later
  /\ ~history.latest[1].res.empty
  /\ history.latest[1].res.Z > 0
  /\ LIB_DF # <<>>

\* C7: for every l1 in 1..999999 and its derived l2c, the C, Hm and Z that
\* metrics returns lie in [0, 1]; it returns whenever sigma_Z is not 0.
C7_MetricsInUnitRange ==
  (pc = "done" /\ fn = "metrics") =>
     /\ (APP_CFG.sigma_Z # 0 => ret.exc = "")
     /\ (ret.exc = "" =>
           /\ 0 <= ret.C /\ ret.C <= SCALE
           /\ 0 <= ret.Hm /\ ret.Hm <= SCALE
           /\ 0 <= ret.Z /\ ret.Z <= SCALE)

\* C7, witness: a call whose raw harmonic fit is negative (w = 46 for
\* l1 = 1) has returned, with Hm clamped to 0
C7_Witness_Clamped ==
  /\ pc = "done" /\ fn = "metrics" /\ arg = 1 /\ ret.exc = ""
  /\ SCALE - MinTargetDist(ret.w_fp, TARGETS) < 0
  /\ ret.Hm = 0

----------------------------------------------------------------------------
(* Clusters *)

\* cluster_by_w(w) for w the exact ratio n/d (d > 0): the cluster code and
\* its name.  Comparing the ratio with 1.0, 1.6, 2.7 and 3.2 in integers is
\* what the float comparisons give for the ratios of two codes.
cluster_by_w(w) ==
  IF w.d <= w.n /\ 10 * w.n < 16 * w.d THEN <<"phi", "phi-yadro">>
  ELSE IF 16 * w.d <= 10 * w.n /\ 10 * w.n < 27 * w.d THEN <<"e", "e">>
  ELSE IF 27 * w.d <= 10 * w.n /\ 10 * w.n < 32 * w.d THEN <<"e-pi", "e-pi">>
  ELSE <<"pi", "pi">>

\* the largest W, in tenths, given to cluster_by_w
MaxTenths == 60

\* the W values given to cluster_by_w: every tenth from 0.0 on, and the W of
\* the codes 1..2 * MaxTenths with their derived L2C (the code 100, spelled
\* in three letters, has W = 0.55)
WSamples ==
  {[n |-> t, d |-> 10] : t \in 0..MaxTenths}
    \cup {[n |-> calc_l2c_from_l1(l1).l2c[1], d |-> l1] : l1 \in 1..(2 * MaxTenths)}

Call_cluster_by_w ==
  /\ pc = "call" /\ fn = "cluster_by_w"
  /\ Return(cluster_by_w(arg))

InitCluster == PureInit("cluster_by_w", WSamples, {DEFAULT_CONFIG})
SpecCluster == InitCluster /\ [][Call_cluster_by_w]_vars

----------------------------------------------------------------------------
(* Lookups by code: the words of the library index and of the personal     *)
(* file that share a code with the analysed word.                          *)

\* lst[:n]
Take(lst, n) == SubSeq(lst, 1, Min2(n, Len(lst)))

\* the items of lst, each at its first occurrence, after the items of out
RECURSIVE UniqInto(_, _)
UniqInto(lst, out) ==
  IF lst = <<>> THEN out
  ELSE IF \E k \in DOMAIN out : out[k] = Head(lst)
  THEN UniqInto(Tail(lst), out)
  ELSE UniqInto(Tail(lst), Append(out, Head(lst)))

\* the first limit items of lst, repeated items kept
first_items(lst, limit) == Take(lst, limit)

\* fmt_list: the distinct items in first-seen order, cut at limit
fmt_list(lst, limit) == Take(UniqInto(lst, <<>>), limit)

\* the rows csv.DictReader gives for the personal file; none when the file
\* does not exist
FileRows(file) == IF file = None THEN <<>> ELSE file[1]

\* the loop over the rows of the personal file, for one axis: the upper-cased
\* text of every row with that code, the current word skipped (and, in
\* _collect_matches_by_code, the empty text)
RECURSIVE PersonalWords(_, _, _, _, _)
PersonalWords(rows, axis, code, current, skip_empty) ==
  IF rows = <<>> THEN <<>>
  ELSE (IF /\ upper(Head(rows).text) # current
           /\ ~(skip_empty /\ Head(rows).text = <<>>)
           /\ Head(rows)[axis] = code
        THEN <<upper(Head(rows).text)>> ELSE <<>>)
         \o PersonalWords(Tail(rows), axis, code, current, skip_empty)

\* [w for w in lst if w not in {uw.upper() for uw in others}]
NotIn(lst, others) ==
  LET Kept(w) == \A k \in DOMAIN others : upper(others[k]) # w
  IN  SelectSeq(lst, Kept)

\* to_str: the list joined with " . " (a middle dot), or a dash when empty
to_str(lst) == IF lst = <<>> THEN <<8212>> ELSE Join(lst, <<32, 183, 32>>)

\* fmt_matches_by_code after the two lists were cut by fmt_list
FmtMatchesOf(unique_l1, unique_l2c) ==
  [l1 |-> unique_l1, l2c |-> unique_l2c,
   text |-> <<to_str(unique_l1), to_str(unique_l2c)>>]

\* fmt_matches_by_code(l1, l2c, current_word, limit) on the indexes ix and
\* the personal file: the two lists and the two strings returned
fmt_matches_by_code(ix, file, l1, l2c, current_word, limit) ==
  FmtMatchesOf(
    fmt_list(Lookup(ix, [l1 |-> l1, l2c |-> l2c,
                         current |-> upper(current_word)]).l1
               \o PersonalWords(FileRows(file), "l1", l1,
                                upper(current_word), FALSE),
             limit),
    NotIn(fmt_list(Lookup(ix, [l1 |-> l1, l2c |-> l2c,
                               current |-> upper(current_word)]).l2c
                     \o PersonalWords(FileRows(file), "l2c", l2c,
                                      upper(current_word), FALSE),
                   limit),
          fmt_list(Lookup(ix, [l1 |-> l1, l2c |-> l2c,
                               current |-> upper(current_word)]).l1
                     \o PersonalWords(FileRows(file), "l1", l1,
                                      upper(current_word), FALSE),
                   limit)))

\* _collect_matches_by_code, one axis: the loop over the index list stops at
\* limit words; the loop over the personal file appends the words not seen;
\* the list is cut at limit
CollectAxis(from_index, from_personal, limit) ==
  Take(UniqInto(from_personal, Take(UniqInto(from_index, <<>>), limit)), limit)

\* _collect_matches_by_code(res, limit_l1, limit_l2c) on the indexes ix and
\* the personal file
collect_matches_by_code(ix, file, res, limit_l1, limit_l2c) ==
  [l1 |-> CollectAxis(Lookup(ix, [l1 |-> res.l1, l2c |-> res.l2c,
                                  current |-> upper(res.norm)]).l1,
                      PersonalWords(FileRows(file), "l1", res.l1,
                                    upper(res.norm), TRUE),
                      limit_l1),
   l2c |-> CollectAxis(Lookup(ix, [l1 |-> res.l1, l2c |-> res.l2c,
                                   current |-> upper(res.norm)]).l2c,
                       PersonalWords(FileRows(file), "l2c", res.l2c,
                                     upper(res.norm), TRUE),
                       limit_l2c)]

\* three words: the codes of W_P and W_ZHZ are 17/133, those of W_U 21/133
W_P == Cyr(<<"P">>)
W_ZHZ == Cyr(<<"ZH", "Z">>)
W_U == Cyr(<<"U">>)

\* a CSV row of a word, with no stored numbers
CsvOf(word, sphere) ==
  Raw(word, sphere, NEUTRAL, PyBool(TRUE), <<>>, PyNone, PyNone)

\* the contents of ./spheres the lookups run over
LookupDirs ==
  { <<>>,
    << <<CsvOf(W_ZHZ, S_DOM), CsvOf(W_U, S_DOM), CsvOf(W_P, S_DOM)>> >>,
    << <<CsvOf(W_U, S_DOM), CsvOf(W_MIR, S_DOM)>>,
       <<CsvOf(W_ZHZ, S_LES), CsvOf(W_U, S_LES)>> >> }

\* the row add_to_personal stores after the analysis of the input w1
PersonalOf(w1) ==
  CHOOSE row \in {PersonalRow(LastResultOf(w1, res)) :
                    res \in {analyze_word(w1).val}} : TRUE

\* the contents of the personal file: absent, empty, and with rows whose
\* texts repeat library words, differ in case, or carry other characters
PersonalFiles ==
  { None,
    Some(<<>>),
    Some(<<PersonalOf(lower(W_U)), PersonalOf(W_ZHZ)>>),
    Some(<<PersonalOf(lower(W_ZHZ)), PersonalOf(W_ZHZ), PersonalOf(W_P),
           PersonalOf(W_U), PersonalOf(W_RIM), PersonalOf(lower(W_P) \o BANG)>>) }

\* the limits given to the lookups: fmt_matches_by_code is called with 30
LookupLimits == {1, 2, 30}

\* the analysed words the lookups are made for
LookupInputs == {W_P, lower(W_U), W_MIR}

\* the libraries the lookups run over: what a load leaves for each content
\* of ./spheres
LookupLibraries ==
  {load_spheres_into_memory(EmptyLib, d).lib : d \in LookupDirs}

LookupInit ==
  /\ APP_CFG = DEFAULT_CONFIG
  /\ \E lib \in LookupLibraries :
       /\ LIB_DF = lib.df
       /\ INDEX_L1 = lib.l1
       /\ INDEX_L2C = lib.l2c
       /\ INDEX_READY = lib.ready
  /\ PERSONAL_CSV \in PersonalFiles
  /\ arg \in [res : {analyze_word(raw).val : raw \in LookupInputs},
              limit : LookupLimits]
  /\ fn \in {"fmt_matches_by_code", "_collect_matches_by_code"}
  /\ ret = None
  /\ pc = "call"
  /\ OpIdle /\ ConcIdle /\ LAST_RESULT = None
  /\ tmp_csv = None /\ MUTEX = 0 /\ adder = [t \in Threads |-> IdleAdder]
  /\ CommitIdle

\* fmt_matches_by_code(res1['l1'], res1['l2c'], res1['norm'], limit)
Call_fmt_matches_by_code ==
  /\ pc = "call" /\ fn = "fmt_matches_by_code"
  /\ Return(fmt_matches_by_code(IndexNow, PERSONAL_CSV, arg.res.l1,
                                arg.res.l2c, arg.res.norm, arg.limit))

\* _collect_matches_by_code(res, limit_l1, limit_l2c)
Call_collect_matches_by_code ==
  /\ pc = "call" /\ fn = "_collect_matches_by_code"
  /\ Return(collect_matches_by_code(IndexNow, PERSONAL_CSV, arg.res,
                                    arg.limit, arg.limit))

LookupNext == Call_fmt_matches_by_code \/ Call_collect_matches_by_code

SpecLookup == LookupInit /\ [][LookupNext]_vars

----------------------------------------------------------------------------
(* Near and contrast words: the library words by their distance from the   *)
(* analysed word in (w, C, Z).                                             *)

\* the squares of the distances 0.20, 0.30 and 1.00, in units of 1/SCALE^2
ContrastFromSq == (SCALE \div 5) * (SCALE \div 5)
NearSq == ((3 * SCALE) \div 10) * ((3 * SCALE) \div 10)
ContrastToSq == SCALE * SCALE

\* D ** 2 for a row, given the three differences.  A difference in w beyond
\* 1.0 alone puts the row beyond every threshold; its square is not computed
DistSqOf(dw, dC, dZ) ==
  IF Abs(dw) > SCALE THEN 2 * ContrastToSq
  ELSE dw * dw + dC * dC + dZ * dZ

\* (df['w'] - w0)**2 + (df['C'] - C0)**2 + (df['Z'] - Z0)**2 for one row
DistSq(row, res) ==
  DistSqOf(FDiv(row.w[1].n, row.w[1].d) - FDiv(res.w.n, res.w.d),
           row.C[1] - res.C, row.Z[1] - res.Z)

\* dropna and df[df['word'] != current]: the rows with numbers, other than
\* the current word, each with its upper-cased word and its D squared
NearRows(df, res) ==
  LET Kept(row) == /\ row.w # None /\ row.C # None /\ row.Z # None
                   /\ upper(row.word) # upper(res.norm)
  IN  [i \in DOMAIN SelectSeq(df, Kept) |->
         [word |-> upper(SelectSeq(df, Kept)[i].word),
          D2 |-> DistSq(SelectSeq(df, Kept)[i], res)]]

\* sort_values('D'): the orders in which the rows are ascending in D.  The
\* sort is not stable: rows of equal D come in any order.
SortedOrders(rows) ==
  {p \in Permutations(DOMAIN rows) :
     \A i, j \in DOMAIN rows : i < j => rows[p[i]].D2 <= rows[p[j]].D2}

\* drop_duplicates(subset=['word'], keep='first')
RECURSIVE DropDuplicates(_, _)
DropDuplicates(rows, out) ==
  IF rows = <<>> THEN out
  ELSE IF \E k \in DOMAIN out : out[k].word = Head(rows).word
  THEN DropDuplicates(Tail(rows), out)
  ELSE DropDuplicates(Tail(rows), Append(out, Head(rows)))

\* the contrast rows taken without regard to the near words
ContrastWithNear(df, near, limit_contrast) ==
  LET Far(row) == row.D2 > ContrastFromSq /\ row.D2 <= ContrastToSq
  IN  Take(SelectSeq(df, Far), limit_contrast)

\* df[(D > 0.20) & (D <= 1.00) & (~word.isin(near_words))].head(limit_contrast)
ContrastOf(df, near, limit_contrast) ==
  LET Far(row) == /\ row.D2 > ContrastFromSq /\ row.D2 <= ContrastToSq
                  /\ \A k \in DOMAIN near : near[k].word # row.word
  IN  Take(SelectSeq(df, Far), limit_contrast)

\* df[df['D'] <= 0.30].head(limit_near)
NearOf(df, limit_near) ==
  LET Close(row) == row.D2 <= NearSq
  IN  Take(SelectSeq(df, Close), limit_near)

\* the two lists, given the near list
NearContrastOf(df, near, limit_contrast) ==
  [near |-> near, contrast |-> ContrastOf(df, near, limit_contrast)]

\* _collect_near_contrast(res, limit_near, limit_contrast) on the library df,
\* with the rows sorted in the order p: the word and the D squared of each
\* entry of the two lists
collect_near_contrast(df, res, p, limit_near, limit_contrast) ==
  IF df = <<>> THEN [near |-> <<>>, contrast |-> <<>>]
  ELSE NearContrastOf(
         DropDuplicates([i \in DOMAIN p |-> NearRows(df, res)[p[i]]], <<>>),
         NearOf(DropDuplicates([i \in DOMAIN p |-> NearRows(df, res)[p[i]]],
                               <<>>),
                limit_near),
         limit_contrast)

\* fmt_near_far_words(res, limit_near, limit_contrast): the same two lists,
\* which it returns as text
fmt_near_far_words(df, res, p, limit_near, limit_contrast) ==
  collect_near_contrast(df, res, p, limit_near, limit_contrast)

\* words of the codes 20, 22, 2, 58, 45 and, again, 22
W_T == Cyr(<<"T">>)
W_F == Cyr(<<"F">>)
W_B == Cyr(<<"B">>)
W_SHYU == Cyr(<<"SH", "YU">>)
W_EHM == Cyr(<<"EH", "M">>)
W_TB == Cyr(<<"T", "B">>)

\* the contents of ./spheres the near and contrast words are taken from
NearDirs ==
  { <<>>,
    << <<CsvOf(W_EHM, S_DOM), CsvOf(W_F, S_DOM), CsvOf(W_YA, S_DOM),
         CsvOf(W_SHYU, S_DOM), CsvOf(W_B, S_DOM), CsvOf(W_TB, S_DOM)>> >>,
    << <<CsvOf(W_T, S_DOM), CsvOf(W_F, S_DOM), CsvOf(W_MIR, S_DOM)>>,
       <<CsvOf(W_F, S_LES), CsvOf(W_SHYU, S_LES)>> >> }

NearLibraries == {load_spheres_into_memory(EmptyLib, d).lib : d \in NearDirs}

\* the limits given: 5 and 5 by default in fmt_near_far_words
NearLimits == [limit_near : {1, 2, 5}, limit_contrast : {1, 5}]

\* the analysed words
NearInputs == {W_T, lower(W_YA) \o BANG}

NearInit ==
  /\ APP_CFG = DEFAULT_CONFIG
  /\ \E lib \in NearLibraries :
       /\ LIB_DF = lib.df
       /\ INDEX_L1 = lib.l1
       /\ INDEX_L2C = lib.l2c
       /\ INDEX_READY = lib.ready
  /\ arg \in [res : {analyze_word(raw).val : raw \in NearInputs},
              limits : NearLimits]
  /\ fn \in {"fmt_near_far_words", "_collect_near_contrast"}
  /\ ret = None
  /\ pc = "call"
  /\ OpIdle /\ ConcIdle /\ LAST_RESULT = None /\ PersIdle /\ CommitIdle

Call_fmt_near_far_words ==
  /\ pc = "call" /\ fn = "fmt_near_far_words"
  /\ \E p \in SortedOrders(NearRows(LIB_DF, arg.res)) :
       Return(fmt_near_far_words(LIB_DF, arg.res, p, arg.limits.limit_near,
                                 arg.limits.limit_contrast))

Call_collect_near_contrast ==
  /\ pc = "call" /\ fn = "_collect_near_contrast"
  /\ \E p \in SortedOrders(NearRows(LIB_DF, arg.res)) :
       Return(collect_near_contrast(LIB_DF, arg.res, p, arg.limits.limit_near,
                                    arg.limits.limit_contrast))

NearNext == Call_fmt_near_far_words \/ Call_collect_near_contrast

SpecNear == NearInit /\ [][NearNext]_vars

----------------------------------------------------------------------------
(* calc_l1_from_string under call *)

\* the longest text given to calc_l1_from_string, beyond single letters
MaxTextLen == 3

\* the characters of the texts: capital and small letters from both ends of
\* the alphabet and the letter outside the contiguous block, a space, a
\* punctuation mark, a Latin letter, and the two capitals just outside the
\* block (U+0400 and U+040F)
TextChars == {1040, 1072, 1071, 1103, 1025, 1105, 32, 33, 97, 1024, 1039}

\* the texts given: every text of up to MaxTextLen of these characters, and
\* every letter of the alphabet alone, capital and small
L1Texts ==
  SeqsUpTo(TextChars, MaxTextLen)
    \cup {<<c>> : c \in DOMAIN KRYON_MAP}
    \cup {lower(<<c>>) : c \in DOMAIN KRYON_MAP}

Call_calc_l1_from_string ==
  /\ pc = "call" /\ fn = "calc_l1_from_string"
  /\ Return(calc_l1_from_string(arg))

InitL1 == PureInit("calc_l1_from_string", L1Texts, {DEFAULT_CONFIG})
SpecL1 == InitL1 /\ [][Call_calc_l1_from_string]_vars
----------------------------------------------------------------------------
(* atomic_write_csv on two threads, statement by statement.  A file name   *)
(* is None when absent, else Some of the inode it names: the inode's       *)
(* number and the lines it holds.  A line is the header, a row or a hole.  *)

CSV_HEADER == "header"
CSV_HOLE == "nul"

\* df.to_csv(index=False): the header line, then one line per row
CsvLines(df) == <<CSV_HEADER>> \o df

\* the frame ./personal/personal.csv holds before the writers start
OLD_DF == <<"r0">>

\* the frames the writers hand to atomic_write_csv: the old frame with a row
\* appended (add_to_personal), or with its rows recomputed (_ui_recalc_personal)
WriterFrames == {<<"r0", "r1">>, <<"r0", "r2">>, <<"q0">>}

InodeOf(t, lines) == [ino |-> t, lines |-> lines]

IdleWriter == [pc |-> "idle", df |-> <<>>, fd |-> 0, pos |-> 0, exc |-> ""]

IdleObserver == [pc |-> "idle", seen |-> None]

\* a write of one line at offset pos through a descriptor: the bytes before
\* the offset that the file lacks are a hole
WriteAt(lines, pos, line) ==
  [k \in 1..Max2(Len(lines), pos) |->
     IF k = pos THEN line
     ELSE IF k <= Len(lines) THEN lines[k] ELSE CSV_HOLE]

\* the name after a write through the descriptor fd: the inode it names
\* takes the line when it is the inode of the descriptor
Written(name, fd, pos, line) ==
  IF name # None /\ name[1].ino = fd
  THEN Some([name[1] EXCEPT !.lines = WriteAt(name[1].lines, pos, line)])
  ELSE name

WriteOthers ==
  <<APP_CFG, pureVars, libVars, opVars, rebuilder, saver, LAST_RESULT,
    MUTEX, commitVars>>

WriteInit ==
  /\ APP_CFG = DEFAULT_CONFIG
  /\ PureIdle /\ LibIdle /\ OpIdle /\ CommitIdle
  /\ rebuilder = IdleRebuilder
  /\ saver = IdleSaver
  /\ reader = IdleObserver
  /\ LAST_RESULT = None
  /\ PERSONAL_CSV \in {None, Some(InodeOf(0, CsvLines(OLD_DF)))}
  /\ tmp_csv = None
  /\ MUTEX = 0
  /\ adder \in [Threads -> {[IdleWriter EXCEPT !.df = df] : df \in WriterFrames}]

WriterStep(t, rec) ==
  /\ adder' = [adder EXCEPT ![t] = rec]
  /\ UNCHANGED WriteOthers

\* tmp = path + ".tmp"; df.to_csv(tmp): open(tmp, "w") creates the file or
\* truncates the one that is there
WriteOpen(t) ==
  /\ adder[t].pc = "idle"
  /\ tmp_csv' = IF tmp_csv = None THEN Some(InodeOf(t, <<>>))
                ELSE Some([tmp_csv[1] EXCEPT !.lines = <<>>])
  /\ WriterStep(t, [adder[t] EXCEPT !.pc = "write", !.fd = tmp_csv'[1].ino])
  /\ UNCHANGED <<PERSONAL_CSV, reader>>

\* df.to_csv(tmp): the next line goes through the descriptor to its inode,
\* under whichever name the inode now is
WriteLine(t) ==
  /\ adder[t].pc = "write"
  /\ adder[t].pos < Len(CsvLines(adder[t].df))
  /\ tmp_csv' = Written(tmp_csv, adder[t].fd, adder[t].pos + 1,
                        CsvLines(adder[t].df)[adder[t].pos + 1])
  /\ PERSONAL_CSV' = Written(PERSONAL_CSV, adder[t].fd, adder[t].pos + 1,
                             CsvLines(adder[t].df)[adder[t].pos + 1])
  /\ WriterStep(t, [adder[t] EXCEPT !.pos = adder[t].pos + 1])
  /\ UNCHANGED reader

\* df.to_csv(tmp): every line is written, the file is closed
WriteClose(t) ==
  /\ adder[t].pc = "write"
  /\ adder[t].pos = Len(CsvLines(adder[t].df))
  /\ WriterStep(t, [adder[t] EXCEPT !.pc = "replace"])
  /\ UNCHANGED <<PERSONAL_CSV, tmp_csv, reader>>

\* os.replace(tmp, path): FileNotFoundError when tmp is absent
WriteReplace(t) ==
  /\ adder[t].pc = "replace"
  /\ IF tmp_csv = None
     THEN /\ WriterStep(t, [adder[t] EXCEPT !.pc = "done",
                                            !.exc = "FileNotFoundError"])
          /\ UNCHANGED <<PERSONAL_CSV, tmp_csv>>
     ELSE /\ PERSONAL_CSV' = tmp_csv
          /\ tmp_csv' = None
          /\ WriterStep(t, [adder[t] EXCEPT !.pc = "done"])
  /\ UNCHANGED reader

\* a reader of the path (pd.read_csv, already_in_personal, commit_ops):
\* it takes the file as it stands
ReadPath ==
  /\ reader.pc = "idle"
  /\ PERSONAL_CSV # None
  /\ reader' = [pc |-> "done", seen |-> Some(PERSONAL_CSV[1].lines)]
  /\ UNCHANGED <<PERSONAL_CSV, tmp_csv, adder, WriteOthers>>

WriteNext ==
  \/ \E t \in Threads : WriteOpen(t)
  \/ \E t \in Threads : WriteLine(t)
  \/ \E t \in Threads : WriteClose(t)
  \/ \E t \in Threads : WriteReplace(t)
  \/ ReadPath

SpecWrite == WriteInit /\ [][WriteNext]_vars

----------------------------------------------------------------------------
(* save_as_sphere_csvs and add_to_personal with their remote commits.  In  *)
(* this specification sphere_files maps the name of each file of ./spheres *)
(* to its rows, and local_files holds the names of the files of ./spheres. *)

\* slugify: the Latin letters of the capitals 1040..1071, in code order
SLUG_LATIN ==
  <<
     <<65>>, <<66>>, <<86>>, <<71>>,
     <<68>>, <<69>>, <<90, 104>>, <<90>>,
     <<73>>, <<89>>, <<75>>, <<76>>,
     <<77>>, <<78>>, <<79>>, <<80>>,
     <<82>>, <<83>>, <<84>>, <<85>>,
     <<70>>, <<72>>, <<67>>, <<67, 104>>,
     <<83, 104>>, <<83, 99, 104>>, <<>>, <<89>>,
     <<>>, <<69>>, <<89, 117>>, <<89, 97>>
  >>

\* slugify: m.get(ch.upper(), ch)
SlugCh(ch) ==
  IF UpperCh(ch) \in 1040..1071 THEN SLUG_LATIN[UpperCh(ch) - 1039]
  ELSE IF UpperCh(ch) = 1025 THEN <<69>>
  ELSE <<ch>>

RECURSIVE Translit(_)
Translit(title) ==
  IF title = <<>> THEN <<>> ELSE SlugCh(Head(title)) \o Translit(Tail(title))

IsAlnum(c) == c \in (48..57) \cup (65..90) \cup (97..122)

\* re.sub(r"[^A-Za-z0-9]+", "-", t)
RECURSIVE Hyphenate(_, _)
Hyphenate(t, out) ==
  IF t = <<>> THEN out
  ELSE IF IsAlnum(Head(t)) THEN Hyphenate(Tail(t), Append(out, Head(t)))
  ELSE IF out # <<>> /\ out[Len(out)] = 45 THEN Hyphenate(Tail(t), out)
  ELSE Hyphenate(Tail(t), Append(out, 45))

\* .strip("-")
RECURSIVE StripHyphens(_)
StripHyphens(t) ==
  IF t # <<>> /\ Head(t) = 45 THEN StripHyphens(Tail(t))
  ELSE IF t # <<>> /\ t[Len(t)] = 45 THEN StripHyphens(SubSeq(t, 1, Len(t) - 1))
  ELSE t

\* return t or "sphere"
SlugOr(t) == IF t = <<>> THEN <<115, 112, 104, 101, 114, 101>> ELSE t

slugify(title) == SlugOr(lower(StripHyphens(Hyphenate(Translit(title), <<>>))))

\* str.split(";")
RECURSIVE SplitSemi(_, _, _)
SplitSemi(text, piece, out) ==
  IF text = <<>> THEN Append(out, piece)
  ELSE IF Head(text) = 59 THEN SplitSemi(Tail(text), <<>>, Append(out, piece))
  ELSE SplitSemi(Tail(text), Append(piece, Head(text)), out)

NonBlank(s) == strip(s) # <<>>

\* if not spheres: spheres = ["prochee"]
SpheresOr(spheres) == IF spheres = <<>> THEN <<PROCHEE>> ELSE spheres

\* save_as_sphere_csvs: the spheres of one library row
SpheresOf(r) == SpheresOr(SelectSeq(SplitSemi(r.sphere, <<>>, <<>>), NonBlank))

\* save_as_sphere_csvs: the row rr written for the library row r under sph
SavedRow(r, sph) ==
  [r EXCEPT !.word = upper(r.word), !.sphere = sph,
            !.field = strip(r.field), !.role = strip(r.role)]

\* save_as_sphere_csvs: the rows rr of one library row
RECURSIVE SavedRows(_, _)
SavedRows(r, spheres) ==
  IF spheres = <<>> THEN <<>>
  ELSE <<SavedRow(r, Head(spheres))>> \o SavedRows(r, Tail(spheres))

\* save_as_sphere_csvs: expanded_rows
RECURSIVE ExpandedRows(_)
ExpandedRows(df) ==
  IF df = <<>> THEN <<>>
  ELSE SavedRows(Head(df), SpheresOf(Head(df))) \o ExpandedRows(Tail(df))

\* int(r.get("l1", 0)), int(r.get("l2c", 0)) raise on a row without numbers
ExpandRaises(df) == \E k \in DOMAIN df : df[k].l1 = None \/ df[k].l2c = None

\* the least str of a non-empty set, as Python compares them
MinStr(S) == CHOOSE s \in S : \A u \in S : u = s \/ StrLess(s, u)

\* df_expanded.groupby("sphere"): the spheres in ascending order
RECURSIVE SortedSpheres(_)
SortedSpheres(S) ==
  IF S = {} THEN <<>> ELSE <<MinStr(S)>> \o SortedSpheres(S \ {MinStr(S)})

\* df_expanded.groupby("sphere"): the rows of one sphere
RECURSIVE GroupOf(_, _)
GroupOf(rows, sph) ==
  IF rows = <<>> THEN <<>>
  ELSE (IF Head(rows).sphere = sph THEN <<Head(rows)>> ELSE <<>>)
         \o GroupOf(Tail(rows), sph)

\* the groups save_as_sphere_csvs goes through: each the file name and the rows
SaveGroupsOf(rows, spheres) ==
  [k \in DOMAIN spheres |->
     [path |-> slugify(spheres[k]), rows |-> GroupOf(rows, spheres[k])]]

SaveGroups(df) ==
  SaveGroupsOf(ExpandedRows(df),
               SortedSpheres({ExpandedRows(df)[k].sphere :
                                k \in DOMAIN ExpandedRows(df)}))

\* spheres/.keep
KEEP_PATH == <<46, 107, 101, 101, 112>>

NoFiles == [p \in {} |-> <<>>]

\* atomic_write_csv(df[cols], path) on the directory
FileWritten(files, path, rows) ==
  [p \in DOMAIN files \cup {path} |-> IF p = path THEN rows ELSE files[p]]

\* the libraries save_as_sphere_csvs finds: none, and the ones loaded from
\* ./spheres
SaveLibraries ==
  {<<>>} \cup {load_spheres_into_memory(EmptyLib, d).lib.df : d \in SphereDirs}

\* the last analysis add_to_personal finds
SaveLastResults ==
  {None} \cup {Some(LastResultOf(W_MIR, res)) : res \in {analyze_word(W_MIR).val}}

\* the thread of add_to_personal next to save_as_sphere_csvs
SAVE_ADDER == CHOOSE t \in Threads : \A u \in Threads : t <= u

SaveInit ==
  /\ APP_CFG = DEFAULT_CONFIG
  /\ LIB_DF \in SaveLibraries
  /\ LAST_RESULT \in SaveLastResults
  /\ fn = "" /\ arg = 0 /\ ret = None /\ pc = "idle"
  /\ INDEX_L1 = EmptyIndex /\ INDEX_L2C = EmptyIndex /\ INDEX_READY = FALSE
  /\ sphere_files = NoFiles
  /\ last_op = [name |-> "start", exc |-> ""]
  /\ steps = 0
  /\ history = NoHistory
  /\ rebuilder = IdleRebuilder
  /\ saver = IdleSaver
  /\ reader = IdleReader
  /\ PERSONAL_CSV \in {None, Some(<<>>)}
  /\ tmp_csv = None
  /\ MUTEX = 0
  /\ adder = [t \in Threads |-> IdleAdder]
  /\ HF_ENABLED \in BOOLEAN
  /\ local_files = {}
  /\ committer = IdleCommitter
  /\ remote = <<>>

SaveOthers ==
  <<APP_CFG, pureVars, libVars, last_op, steps, history, rebuilder, reader,
    LAST_RESULT, persVars, HF_ENABLED, remote>>

\* if LIB_DF is None or LIB_DF.empty: return; the expansion of the rows,
\* which raises on a row without numbers: except Exception: return
SaveEnter ==
  /\ saver.pc = "idle"
  /\ saver' =
       IF LIB_DF = <<>> THEN [saver EXCEPT !.pc = "done", !.ret = "empty"]
       ELSE IF ExpandRaises(LIB_DF)
       THEN [saver EXCEPT !.pc = "done", !.ret = "error"]
       ELSE [saver EXCEPT !.pc = "write", !.groups = SaveGroups(LIB_DF)]
  /\ UNCHANGED <<sphere_files, local_files, committer, SaveOthers>>

\* for sph, df in df_expanded.groupby("sphere"): atomic_write_csv(df[cols],
\* path); saved_paths.append(path)
SaveWrite ==
  /\ saver.pc = "write"
  /\ saver.groups # <<>>
  /\ sphere_files' = FileWritten(sphere_files, Head(saver.groups).path,
                                 Head(saver.groups).rows)
  /\ local_files' = local_files \cup {Head(saver.groups).path}
  /\ saver' = [saver EXCEPT
                     !.groups = Tail(@),
                     !.saved_paths = Append(@, Head(saver.groups).path)]
  /\ UNCHANGED <<committer, SaveOthers>>

\* the loop is over: spheres/.keep is created or touched;
\* saved_paths.append(keep_path)
SaveKeep ==
  /\ saver.pc = "write"
  /\ saver.groups = <<>>
  /\ local_files' = local_files \cup {KEEP_PATH}
  /\ saver' = [saver EXCEPT !.pc = "commit",
                                    !.saved_paths = Append(@, KEEP_PATH)]
  /\ UNCHANGED <<sphere_files, committer, SaveOthers>>

\* msg_commit = commit_ops(saved_paths, "Save sphere CSVs"): the call is
\* entered; its statements are the actions of commit_ops
SaveCommit ==
  /\ saver.pc = "commit"
  /\ committer.pc = "idle"
  /\ committer' =
       [IdleCommitter EXCEPT
          !.calls = 1, !.paths = saver.saved_paths,
          !.pc = IF HF_ENABLED THEN "open" ELSE "done",
          !.ret = IF HF_ENABLED THEN "" ELSE "disabled"]
  /\ saver' = [saver EXCEPT !.pc = "wait"]
  /\ UNCHANGED <<sphere_files, local_files, SaveOthers>>

\* save_as_sphere_csvs with a remote failure undone locally
SaveReturnRollback ==
  /\ saver.pc = "wait"
  /\ committer.pc = "done"
  /\ saver' = [saver EXCEPT
                     !.pc = "done",
                     !.ret = IF committer.exc # "" THEN "error" ELSE "saved"]
  /\ sphere_files' = IF committer.ret = "warning" THEN NoFiles ELSE sphere_files
  /\ UNCHANGED <<local_files, committer, SaveOthers>>

\* commit_ops has returned: return the message; an exception of commit_ops
\* ends in except Exception: return
SaveReturn ==
  /\ saver.pc = "wait"
  /\ committer.pc = "done"
  /\ saver' = [saver EXCEPT
                     !.pc = "done",
                     !.ret = IF committer.exc # "" THEN "error" ELSE "saved"]
  /\ UNCHANGED <<sphere_files, local_files, committer, SaveOthers>>

\* add_to_personal on one thread
SaveAdd ==
  \/ AddEnter(SAVE_ADDER)
  \/ AddEnsure(SAVE_ADDER)
  \/ AddEnsureToCsv(SAVE_ADDER)
  \/ AddEnsureReplace(SAVE_ADDER)
  \/ AddCheck(SAVE_ADDER)
  \/ AddReadCsv(SAVE_ADDER)
  \/ AddToCsv(SAVE_ADDER)
  \/ AddReplace(SAVE_ADDER)
  \/ AddAcquire(SAVE_ADDER)
  \/ AddCommit(SAVE_ADDER)
  \/ AddRelease(SAVE_ADDER)

SaveNext ==
  \/ SaveEnter
  \/ SaveWrite
  \/ SaveKeep
  \/ SaveCommit
  \/ CommitOpen
  \/ CommitFor
  \/ CommitSucceeds
  \/ CommitFails
  \/ CommitSleep
  \/ SaveReturn
  \/ SaveAdd

SpecSave == SaveInit /\ [][SaveNext]_vars

----------------------------------------------------------------------------
(* Resonance pairs.  w is the ratio [n, d] with d > 0; a distance          *)
(* abs(w - t) is kept as its numerator over 1000 * d.                      *)

\* the dict `values`, in its insertion order
RES_KEYS == <<"phi", "e", "pi", "rt2">>

\* the targets of the keys with two of them exchanged
RES_TARGETS_EXCHANGED == <<1618, 1414, 3142, 2718>>

\* 1.618, 2.718, 3.142, 1.414 in thousandths, in the order of RES_KEYS
RES_TARGETS == <<1618, 2718, 3142, 1414>>

\* math.exp(-x) is 0.0 for x above 745.133 (the least double is about
\* exp(-744.44)), in thousandths
EXP_UNDERFLOW == 745133

\* abs(w - t) for the k-th key, times 1000 * d
ResDist(w, k) == Abs(1000 * w.n - RES_TARGETS[k] * w.d)

\* math.exp(-abs(w - t)) == 0.0 for the k-th key
ResZero(w, k) ==
  Abs(w.n) > 1000 * w.d \/ ResDist(w, k) > EXP_UNDERFLOW * w.d

\* the sort without reverse=True
ScoreAfter(w, a, b, flip) ==
  IF ResZero(w, a) \/ ResZero(w, b)
  THEN (ResZero(w, a) /\ ~ResZero(w, b)) \/ (ResZero(w, a) = ResZero(w, b) /\ a < b)
  ELSE \/ ResDist(w, a) > ResDist(w, b)
       \/ ResDist(w, a) = ResDist(w, b) /\ a < b

\* sorted(values.items(), key=..., reverse=True): the k-th item a comes
\* before the item b.  The sort is stable, so equal scores keep the order of
\* the dict; two scores whose distances are equal as real numbers can come
\* out either way in floating point, which flip decides
ScoreBefore(w, a, b, flip) ==
  IF ResZero(w, a) \/ ResZero(w, b)
  THEN (~ResZero(w, a) /\ ResZero(w, b)) \/ (ResZero(w, a) = ResZero(w, b) /\ a < b)
  ELSE \/ ResDist(w, a) < ResDist(w, b)
       \/ ResDist(w, a) = ResDist(w, b) /\ (IF flip THEN a > b ELSE a < b)

\* the place of the item a in the sorted list, from 0
ResPlace(w, a, flip) ==
  Cardinality({b \in DOMAIN RES_KEYS : b # a /\ ScoreBefore(w, b, a, flip)})

\* top = sorted(...)[:2]: the item at the given place
ResTop(w, place, flip) ==
  CHOOSE a \in DOMAIN RES_KEYS : ResPlace(w, a, flip) = place

\* pair_key = tuple(sorted([k1, k2], key=["phi","e","pi","rt2"].index))
PairKey(k1, k2) == <<RES_KEYS[Min2(k1, k2)], RES_KEYS[Max2(k1, k2)]>>

\* the table of the six pairings: name, English and Russian description
RESONANCE_PAIRS ==
  [key \in {<<"phi", "rt2">>, <<"phi", "e">>, <<"e", "pi">>, <<"pi", "rt2">>,
            <<"phi", "pi">>, <<"e", "rt2">>} |->
     CASE key = <<"phi", "rt2">> ->
            [name |-> "phi-rt2", en |-> "Harmony <-> Duality", ru |-> "unity through difference"]
       [] key = <<"phi", "e">> ->
            [name |-> "phi-e", en |-> "Harmony <-> Growth", ru |-> "harmony turning into motion"]
       [] key = <<"e", "pi">> ->
            [name |-> "e-pi", en |-> "Growth <-> Cycle", ru |-> "breakthrough and culmination"]
       [] key = <<"pi", "rt2">> ->
            [name |-> "pi-rt2", en |-> "Cycle <-> Transition", ru |-> "completion and silence"]
       [] key = <<"phi", "pi">> ->
            [name |-> "phi-pi", en |-> "Harmony <-> Cycle", ru |-> "rest and fullness"]
       [] key = <<"e", "rt2">> ->
            [name |-> "e-rt2", en |-> "Growth <-> Threshold", ru |-> "metamorphosis"]]

NO_LABELS == [name |-> "", en |-> "", ru |-> ""]

\* r_pair = math.sqrt(v1 * v2), in fixed point
RPair(w, k1, k2) ==
  IF ResZero(w, k1) \/ ResZero(w, k2) THEN 0
  ELSE math_exp_neg((FDiv(ResDist(w, k1), 1000 * w.d)
                       + FDiv(ResDist(w, k2), 1000 * w.d)) \div 2)

\* resonance_pair from `if r_pair < threshold` on; pair_key is kept in the
\* result next to the tuple returned
ResonanceOf(pair_key, r_pair, threshold) ==
  [pair_key |-> pair_key, r_pair |-> r_pair,
   labels |-> IF r_pair < threshold THEN NO_LABELS
              ELSE IF pair_key \in DOMAIN RESONANCE_PAIRS
              THEN RESONANCE_PAIRS[pair_key]
              ELSE NO_LABELS]

\* resonance_pair after top is taken
ResonanceTop(w, threshold, k1, k2) ==
  ResonanceOf(PairKey(k1, k2), RPair(w, k1, k2), threshold)

\* resonance_pair(w, threshold)
resonance_pair(w, threshold, flip) ==
  ResonanceTop(w, threshold, ResTop(w, 0, flip), ResTop(w, 1, flip))

\* the W values given to resonance_pair: the thousandths up to MaxMilli, the
\* W of the codes, and values around the underflow of math.exp
MaxMilli == 3500

FarW == {748, 747, 746, 745, 1000, 0 - 742, 0 - 744, 0 - 800}

ResWSamples ==
  {[n |-> m, d |-> 1000] : m \in 0..MaxMilli}
    \cup WSamples
    \cup {[n |-> f, d |-> 1] : f \in FarW}
    \cup {[n |-> 7479, d |-> 10], [n |-> 7483, d |-> 10]}

\* threshold: the default of the parameter, the default of the
\* configuration, and 1.0
ResThresholds == {0, 7500, SCALE}

Call_resonance_pair ==
  /\ pc = "call" /\ fn = "resonance_pair"
  /\ \E flip \in BOOLEAN :
       Return(resonance_pair(arg.w, arg.threshold, flip))

InitResonance ==
  PureInit("resonance_pair", [w : ResWSamples, threshold : ResThresholds],
           {DEFAULT_CONFIG})
SpecResonance == InitResonance /\ [][Call_resonance_pair]_vars

----------------------------------------------------------------------------
(* The FII bar.  fii is in fixed point.                                    *)

\* the FII values given to fii_bar: the hundredths from -MaxFii to MaxFii
MaxFii == 1200

FiiSamples == {h * (SCALE \div 100) : h \in (0 - MaxFii)..MaxFii}

Call_fii_bar ==
  /\ pc = "call" /\ fn = "fii_bar"
  /\ Return(fii_bar(arg))

InitFii == PureInit("fii_bar", FiiSamples, {DEFAULT_CONFIG})
SpecFii == InitFii /\ [][Call_fii_bar]_vars

----------------------------------------------------------------------------
(* analyze_word under call *)

\* the highest code of the words given to analyze_word
MaxAnalysisL1 == 700

\* a word of the code l1 >= 1: the last letter of the alphabet (33) as often
\* as it fits below l1, then the letter of the remaining code
WordOfCode(l1) ==
  [i \in 1..((l1 - 1) \div 33) |-> CYR["YA"]]
    \o <<CHOOSE c \in DOMAIN KRYON_MAP : KRYON_MAP[c] = l1 - 33 * ((l1 - 1) \div 33)>>

\* the inputs: a word of every code up to MaxAnalysisL1, and inputs with no
\* letter of the alphabet
AnalysisInputs ==
  {WordOfCode(l1) : l1 \in 1..MaxAnalysisL1} \cup {<<>>, BANG, <<97>>}

\* the configurations of the analyses: every sigma_Z of the settings form,
\* and a negative one
AnalysisConfigs ==
  {[DEFAULT_CONFIG EXCEPT !.sigma_Z = s] : s \in SigmaValues \cup {0 - 8000}}

Call_analyze_word ==
  /\ pc = "call" /\ fn = "analyze_word"
  /\ Return(analyze_word(arg))

InitAnalysis == PureInit("analyze_word", AnalysisInputs, AnalysisConfigs)
SpecAnalysis == InitAnalysis /\ [][Call_analyze_word]_vars

----------------------------------------------------------------------------
(* The library handlers over a ./spheres that also holds a row whose       *)
(* sphere cell is blank.                                                   *)

\* a CSV row whose sphere cell holds only spaces: read_csv keeps it as a str
K_BLANK == Raw(W_YA, SP \o SP, NEUTRAL, PyBool(TRUE), N_A, PyNone, PyNone)

MergeSphereDirs == SphereDirs \cup { << <<K_MIR, K_BLANK>> >> }

SpecMerge == LibInit(LibConfigs, MergeSphereDirs) /\ [][LibNext]_vars

\* C8: a reader of the index that runs next to rebuild_indexes returns what
\* it would return on a complete index: the one from before the rebuild or
\* the one after it, never an empty or partly filled one.
C8_ReaderSeesCompleteIndex ==
  reader.pc = "done" =>
    \E ix \in reader.complete :
      [l1 |-> reader.out_l1, l2c |-> reader.out_l2c] = Lookup(ix, reader)

\* C9: add_to_personal holds MUTEX from reading the personal file to
\* replacing it, so when two calls for different entries have run
\* concurrently and both reported the entry added, both entries are in the
\* personal file.
C9_NoLostUpdate ==
  (/\ \A t \in Threads : adder[t].pc = "done" /\ adder[t].ret = "added"
   /\ adder[1].entry # adder[2].entry)
    => \A t \in Threads :
         already_in_personal(PERSONAL_CSV, adder[t].entry[1].text,
                             adder[t].entry[1].phrase_used)

\* C10: with mirroring enabled commit_ops calls create_commit at most 4
\* times, waits 1, 2, 4, 8 seconds after the failed attempts, stops at the
\* first success, and after the last failure returns the warning: no remote
\* failure raises.
C10_BoundedBackoff ==
  /\ committer.tries <= 4
  /\ Len(committer.sleeps) <= 4
  /\ \A k \in DOMAIN committer.sleeps :
       committer.sleeps[k] = IF k = 1 THEN 1 ELSE 2 * committer.sleeps[k - 1]
  /\ committer.ret = "ok" =>
       committer.pc = "done" /\ Len(committer.sleeps) = committer.tries - 1
  /\ committer.ret # "ok" => Len(committer.sleeps) \in {committer.tries - 1, committer.tries}
  /\ (committer.pc = "done" /\ Len(committer.sleeps) = 4) =>
       committer.ret = "warning" /\ committer.exc = ""
  /\ committer.tries > 0 => committer.exc = ""
  /\ (HF_ENABLED /\ committer.pc = "done" /\ committer.exc = "") =>
       committer.ret \in {"ok", "warning"}

\* C10, witness: four attempts have failed and commit_ops has returned the
\* warning, having waited 1, 2, 4 and 8 seconds
C10_Witness_GaveUp ==
  /\ committer.pc = "done"
  /\ committer.ret = "warning"
  /\ committer.tries = 4
  /\ committer.sleeps = <<1, 2, 4, 8>>


\* C11: analyze_word never raises: whatever the input and whatever
\* configuration set_cfg_values has accepted, an analysis ends with a result
\* (the empty one when the input cannot be analysed), never with an exception.
C11_AnalyzeNeverRaises ==
  last_op.name = "on_calc" => last_op.exc = ""

\* C12: in a bulk operation, a row that fails to process is skipped alone:
\* after load_spheres_into_memory, every row of every file of ./spheres that
\* can be processed by itself has its word, under its sphere, in the library
\* and in the L1 index, whatever other rows its file holds.
C12_BadRowSkippedAlone ==
  last_op.name = "load_spheres_into_memory" =>
    \A f \in DOMAIN sphere_files : \A j \in DOMAIN sphere_files[f] :
      LET r == CsvRow(sphere_files[f][j])
      IN  (r.exc = "" /\ normalize(r.val.word) # <<>>) =>
            \E i \in DOMAIN LIB_DF :
              /\ LIB_DF[i].word = normalize(r.val.word)
              /\ LIB_DF[i].sphere = strip(r.val.sphere)
              /\ LIB_DF[i].l1 # None
              /\ Listed(INDEX_L1, LIB_DF[i].l1[1], LIB_DF[i].word)

\* C13: when l1 = 0 reaches the metric computation, the operation ends with
\* a reported outcome (an error value or a sentinel), not with an exception
\* that leaves it: fractal_unfold(0) returns.
C13_ZeroCodeReported ==
  (pc = "done" /\ fn = "fractal_unfold" /\ arg = 0) =>
     /\ ret.exc = ""
     /\ ret.interp # ""

\* C14: in every state reached by configuration changes interleaved with
\* library handlers, the Z of each library row is the Z that metrics gives
\* for the row's codes under the configuration now in force.
C14_RowsFollowConfig ==
  \A i \in DOMAIN LIB_DF :
    (LIB_DF[i].l1 # None /\ APP_CFG.sigma_Z # 0) =>
       LIB_DF[i].Z = Some(metrics(LIB_DF[i].l1[1], LIB_DF[i].l2c[1]).Z)

\* C15: cluster_by_w returns phi exactly when 1.0 <= w < 1.6, e exactly when
\* 1.6 <= w < 2.7, e-pi exactly when 2.7 <= w < 3.2, and pi exactly when
\* w >= 3.2.
C15_ClusterBins ==
  (pc = "done" /\ fn = "cluster_by_w") =>
     /\ ret[1] = "phi" <=> (10 * arg.d <= 10 * arg.n /\ 10 * arg.n < 16 * arg.d)
     /\ ret[1] = "e" <=> (16 * arg.d <= 10 * arg.n /\ 10 * arg.n < 27 * arg.d)
     /\ ret[1] = "e-pi" <=> (27 * arg.d <= 10 * arg.n /\ 10 * arg.n < 32 * arg.d)
     /\ ret[1] = "pi" <=> 32 * arg.d <= 10 * arg.n

\* the rows of df with the key k, in the order of df
C16_Group(df, k) ==
  LET InGroup(row) == KeyOf(row) = k
  IN  SelectSeq(df, InGroup)

\* the first non-empty value of a column, or the empty string
C16_First(column) ==
  LET filled == {i \in DOMAIN column : column[i] # <<>>}
  IN  IF filled = {} THEN <<>>
      ELSE column[CHOOSE i \in filled : \A j \in filled : i <= j]

\* the distinct non-empty notes of the rows i..Len(g) of the group g, each at
\* its first occurrence, joined with " | " after the notes joined so far
RECURSIVE C16_Notes(_, _, _)
C16_Notes(g, i, joined) ==
  IF i > Len(g) THEN joined
  ELSE IF g[i].notes = <<>> \/ \E j \in 1..(i - 1) : g[j].notes = g[i].notes
  THEN C16_Notes(g, i + 1, joined)
  ELSE C16_Notes(g, i + 1,
                 IF joined = <<>> THEN g[i].notes
                 ELSE joined \o <<32, 124, 32>> \o g[i].notes)

C17_Candidates(axis) ==
  LET OfCode(row) == row[axis] = Some(arg.res[axis])
      Personal(row) == row[axis] = arg.res[axis]
      lib == SelectSeq(LIB_DF, OfCode)
      personal == SelectSeq(FileRows(PERSONAL_CSV), Personal)
  IN  [i \in DOMAIN lib |-> upper(lib[i].word)]
        \o [i \in DOMAIN personal |-> upper(personal[i].text)]

\* the words that share the queried code on an axis, the current word aside
C17_Sharing(axis) ==
  {C17_Candidates(axis)[i] : i \in DOMAIN C17_Candidates(axis)}
    \ {upper(arg.res.norm)}

\* where w is first seen among the candidates of an axis
C17_FirstSeen(axis, w) ==
  CHOOSE i \in DOMAIN C17_Candidates(axis) :
    /\ C17_Candidates(axis)[i] = w
    /\ \A j \in 1..(i - 1) : C17_Candidates(axis)[j] # w

\* every word of the list L shares the code of the axis and is not the
\* current word; no word is twice in L; the words are in first-seen order;
\* L is no longer than the limit
C17_ListOk(L, axis) ==
  /\ \A k \in DOMAIN L : L[k] \in C17_Sharing(axis)
  /\ \A i, j \in DOMAIN L : i < j => L[i] # L[j]
  /\ \A i, j \in DOMAIN L :
       i < j => C17_FirstSeen(axis, L[i]) < C17_FirstSeen(axis, L[j])
  /\ Len(L) <= arg.limit

\* when fewer than limit words share the code, L holds every one of them
\* that is not in the list other
C17_Complete(L, axis, other) ==
  Cardinality(C17_Sharing(axis)) < arg.limit =>
    \A w \in C17_Sharing(axis) :
      (\E k \in DOMAIN L : L[k] = w) \/ (\E k \in DOMAIN other : other[k] = w)

\* C17 as stated: a code lookup on one axis returns a list in which every
\* word shares the queried code, the current word is absent, no word appears
\* twice, first-seen order is kept and the length is at most the limit; when
\* fewer than limit words share the code, every one of them other than the
\* current word is returned.
C17_LookupComplete ==
  (pc = "done" /\ fn \in {"fmt_matches_by_code", "_collect_matches_by_code"}) =>
     /\ C17_ListOk(ret.l1, "l1") /\ C17_ListOk(ret.l2c, "l2c")
     /\ C17_Complete(ret.l1, "l1", <<>>)
     /\ C17_Complete(ret.l2c, "l2c", <<>>)

\* C17, amended: as stated, except that the L2C list of fmt_matches_by_code
\* leaves out the words of its L1 list: when fewer than limit words share
\* the L2C code, it holds every one of them that is neither the current word
\* nor in the L1 list, and none that is in the L1 list.
C17_LookupLists ==
  (pc = "done" /\ fn \in {"fmt_matches_by_code", "_collect_matches_by_code"}) =>
     /\ C17_ListOk(ret.l1, "l1") /\ C17_ListOk(ret.l2c, "l2c")
     /\ C17_Complete(ret.l1, "l1", <<>>)
     /\ C17_Complete(ret.l2c, "l2c",
                     IF fn = "fmt_matches_by_code" THEN ret.l1 ELSE <<>>)
     /\ fn = "fmt_matches_by_code" =>
          \A i \in DOMAIN ret.l1, j \in DOMAIN ret.l2c : ret.l1[i] # ret.l2c[j]

\* C17, witness: fmt_matches_by_code for the word of codes 17/133, with words
\* repeated between the library and the personal file, has returned the
\* other word of code 17 for L1 and, for L2C, the word of codes 21/133 only
C17_Witness_SharedBoth ==
  /\ pc = "done" /\ fn = "fmt_matches_by_code"
  /\ arg.res.norm = W_P /\ arg.limit = 30
  /\ LIB_DF # <<>> /\ PERSONAL_CSV # None /\ Len(PERSONAL_CSV[1]) > 2
  /\ ret.l1 = <<W_ZHZ, W_P \o BANG>>
  /\ ret.l2c = <<W_U>>

\* the library words other than the current one, each with the square of its
\* distance from the analysed word
C18_Distances ==
  {[word |-> upper(LIB_DF[i].word), D2 |-> DistSq(LIB_DF[i], arg.res)] :
     i \in {k \in DOMAIN LIB_DF :
              /\ LIB_DF[k].w # None
              /\ upper(LIB_DF[k].word) # upper(arg.res.norm)}}

\* the entries of L are library words with their distances, in ascending
\* order of distance, and there are at most limit of them
C18_Ascending(L, limit) ==
  /\ \A k \in DOMAIN L : L[k] \in C18_Distances
  /\ \A i, j \in DOMAIN L : i < j => L[i].D2 <= L[j].D2
  /\ Len(L) <= limit

C19_IsLetter(c) == c \in (1040..1103) \cup {1025, 1105}

\* the sum of the codes the letters of text have when given alone
RECURSIVE C19_Sum(_)
C19_Sum(text) ==
  IF text = <<>> THEN 0
  ELSE calc_l1_from_string(<<Head(text)>>).l1 + C19_Sum(Tail(text))

C20_SentinelEmptyPattern ==
  (pc = "done" /\ fn = "fractal_unfold" /\ OutOfRange(arg)) =>
     /\ ret.exc = ""
     /\ ret.pattern = <<>>
     /\ ret.inhale = 0 /\ ret.exhale = 0
     /\ ret.R = [inf |-> FALSE, n |-> 0, d |-> 1]
     /\ ret.interp = "out_of_range"

\* C20: for a code that is out of range on the first step, fractal_unfold
\* returns without raising the sentinel: no W value, the pattern that is the
\* single placeholder dash (no inhale or exhale symbol and no arrow),
\* inhale = 0, exhale = 0, the ratio 0.0 and the tag "out_of_range".
C20_SentinelResult ==
  (pc = "done" /\ fn = "fractal_unfold" /\ OutOfRange(arg)) =>
     /\ ret.exc = ""
     /\ ret.w_values = <<>>
     /\ ret.pattern = <<"dash">>
     /\ ret.inhale = 0 /\ ret.exhale = 0
     /\ ret.R = [inf |-> FALSE, n |-> 0, d |-> 1]
     /\ ret.interp = "out_of_range"

\* C20, witness: fractal_unfold has returned the sentinel for the first code
\* above the range
C20_Witness_AboveRange ==
  /\ pc = "done" /\ fn = "fractal_unfold"
  /\ arg = CODE_MAX + 1
  /\ ret.interp = "out_of_range"

\* the complete versions of the file: the content before the writers and
\* the content each writer hands to atomic_write_csv
C21_Versions == {CsvLines(OLD_DF)} \cup {CsvLines(adder[t].df) : t \in Threads}

\* C21: what a reader of the persisted file sees is always a complete
\* version, the old content or the content of one writer, never a partly
\* written file, also when two writers run atomic_write_csv on the path at
\* the same time.
C21_ReaderSeesCompleteVersion ==
  (reader.pc = "done" /\ reader.seen # None) => reader.seen[1] \in C21_Versions

\* the rows of the library are in the files of ./spheres, under their sphere
C22_SpheresOnDisk ==
  /\ KEEP_PATH \in local_files
  /\ \A k \in DOMAIN LIB_DF :
       \E p \in DOMAIN sphere_files :
         /\ p \in local_files
         /\ \E j \in DOMAIN sphere_files[p] :
              /\ sphere_files[p][j].word = upper(LIB_DF[k].word)
              /\ sphere_files[p][j].sphere = LIB_DF[k].sphere

\* the remote commit of a handler is under way or over
C22_SaveCommitting == saver.pc = "wait" \/ (saver.pc = "done" /\ saver.ret # "empty")
C22_AddCommitting(t) ==
  adder[t].pc \in {"acquire", "commit", "release"} /\ ~adder[t].already

\* C22: in add_to_personal and in save_as_sphere_csvs the local files are
\* replaced in full before commit_ops is entered, and from then on, whatever
\* the remote attempts give, the local files stay as they were written.
C22_LocalBeforeRemote ==
  /\ [](C22_SaveCommitting => C22_SpheresOnDisk)
  /\ [](C22_AddCommitting(SAVE_ADDER) =>
          PERSONAL_CSV = Some(adder[SAVE_ADDER].df) /\ tmp_csv = None)
  /\ [][/\ (saver.pc \in {"commit", "wait"}) =>
            sphere_files' = sphere_files /\ local_files' = local_files
        /\ (adder[SAVE_ADDER].pc \in {"acquire", "commit", "release"}) =>
            PERSONAL_CSV' = PERSONAL_CSV /\ tmp_csv' = tmp_csv]_vars

\* C22, witness: every remote attempt of save_as_sphere_csvs has failed and
\* add_to_personal has returned with nothing committed, and the files of both
\* are on disk
C22_Witness_RemoteFailed ==
  /\ saver.pc = "done" /\ saver.ret = "saved"
  /\ committer.ret = "warning" /\ committer.tries = 4
  /\ adder[SAVE_ADDER].pc = "done" /\ adder[SAVE_ADDER].ret = "added"
  /\ remote = <<>>
  /\ HF_ENABLED
  /\ C22_SpheresOnDisk
  /\ PERSONAL_CSV = Some(adder[SAVE_ADDER].df)
  /\ Len(adder[SAVE_ADDER].df) = 1

\* the targets of the four archetypes, in thousandths
C23_Target == [phi |-> 1618, e |-> 2718, pi |-> 3142, rt2 |-> 1414]
C23_Names == {"phi", "e", "pi", "rt2"}
C23_Canonical == [phi |-> 1, e |-> 2, pi |-> 3, rt2 |-> 4]

\* abs(w - target) of the argument, times 1000 * d
C23_Dist(k) == Abs(1000 * arg.w.n - C23_Target[k] * arg.w.d)

\* the score exp(-abs(w - target)) is 0.0
C23_Zero(k) == C23_Dist(k) > 745133 * arg.w.d

\* the score of a is at most the score of b
C23_ScoreLeq(a, b) == C23_Zero(a) \/ (~C23_Zero(b) /\ C23_Dist(a) >= C23_Dist(b))

\* the key is a canonically ordered key of the table, its two archetypes
\* have the highest scores, and the labels follow the threshold
C23_TopTwo(key, labels, r_pair) ==
  /\ key \in DOMAIN RESONANCE_PAIRS
  /\ Cardinality(DOMAIN RESONANCE_PAIRS) = 6
  /\ key[1] \in C23_Names /\ key[2] \in C23_Names
  /\ C23_Canonical[key[1]] < C23_Canonical[key[2]]
  /\ \A c \in C23_Names \ {key[1], key[2]} :
       C23_ScoreLeq(c, key[1]) /\ C23_ScoreLeq(c, key[2])
  /\ r_pair >= arg.threshold =>
       /\ labels = RESONANCE_PAIRS[key]
       /\ labels.name # "" /\ labels.en # "" /\ labels.ru # ""
  /\ r_pair < arg.threshold =>
       labels.name = "" /\ labels.en = "" /\ labels.ru = ""

\* the two archetypes of the key are the two targets nearest to w
C23_Nearest(key) ==
  \A c \in C23_Names \ {key[1], key[2]} :
    C23_Dist(c) >= C23_Dist(key[1]) /\ C23_Dist(c) >= C23_Dist(key[2])

\* C23, as stated: resonance_pair takes the two archetypes with the highest
\* scores, which are the two targets nearest to w, orders them canonically,
\* finds the key among the six pairings, and returns the labels of the
\* pairing exactly when r_pair >= threshold, else empty labels with r_pair.
C23_ResonancePair ==
  (pc = "done" /\ fn = "resonance_pair") =>
     /\ C23_TopTwo(ret.pair_key, ret.labels, ret.r_pair)
     /\ C23_Nearest(ret.pair_key)

\* C23: resonance_pair takes the two archetypes with the highest scores,
\* which are the two targets nearest to w as long as no score has
\* underflowed to 0.0, orders them canonically, finds the key among the six
\* pairings, and returns the labels of the pairing exactly when
\* r_pair >= threshold, else empty labels with r_pair.
C23_ResonancePairNoUnderflow ==
  (pc = "done" /\ fn = "resonance_pair") =>
     /\ C23_TopTwo(ret.pair_key, ret.labels, ret.r_pair)
     /\ (\A k \in C23_Names : ~C23_Zero(k)) => C23_Nearest(ret.pair_key)

\* C23, witness: for w = 1.5 and the threshold 0.75 the pair of phi and rt2
\* has come out with its labels
C23_Witness_PhiRt2 ==
  /\ pc = "done" /\ fn = "resonance_pair"
  /\ arg = [w |-> [n |-> 1500, d |-> 1000], threshold |-> 7500]
  /\ ret.pair_key = <<"phi", "rt2">>
  /\ ret.labels.name = "phi-rt2"
  /\ ret.r_pair >= 9000


\* the category of the claim for an FII in fixed point
C24_Category(fii) ==
  CASE fii <= -60000 -> "Destroyer"
    [] -60000 < fii /\ fii <= -20000 -> "Dissipator"
    [] -20000 < fii /\ fii < 20000 -> "Neutral"
    [] 20000 <= fii /\ fii < 60000 -> "Harmonizer"
    [] fii >= 60000 -> "Resonator"

\* C24: fii_bar gives exactly one of the five categories, by the
\* breakpoints -6, -2, 2 and 6 (Destroyer up to -6, Dissipator up to -2,
\* Neutral below 2, Harmonizer below 6, Resonator from 6), and a bar of
\* exactly 10 segments.
C24_FiiBar ==
  (pc = "done" /\ fn = "fii_bar") =>
     /\ ret.cat = C24_Category(arg)
     /\ ret.cat \in {"Destroyer", "Dissipator", "Neutral", "Harmonizer", "Resonator"}
     /\ Len(ret.bar) = 10
     /\ \A i \in DOMAIN ret.bar : ret.bar[i] \in {"filled", "hollow"}

\* C24, witness: fii_bar has returned for an FII above 10, which would fill
\* more than ten segments
C24_Witness_AboveTen ==
  /\ pc = "done" /\ fn = "fii_bar"
  /\ arg = 120000
  /\ ret.cat = "Resonator"
  /\ ret.bar = [i \in 1..10 |-> "filled"]

\* the number of consecutive pairs of the W-values that strictly increase
C25_Rising(w_values) ==
  Cardinality({i \in 1..(Len(w_values) - 1) :
                 w_values[i + 1].n * w_values[i].d
                   > w_values[i].n * w_values[i + 1].d})

\* the ratio and the interpretation of the claim for the two counts
C25_Reading(inhale, exhale, R, interp) ==
  /\ (exhale > 0) => R = [inf |-> FALSE, n |-> inhale, d |-> exhale]
  /\ (exhale = 0 /\ inhale > 0) => R.inf
  /\ (exhale = 0 /\ inhale = 0) => R = [inf |-> FALSE, n |-> 1, d |-> 1]
  /\ interp = (IF R.inf \/ 100 * R.n > 105 * R.d THEN "unfolds"
               ELSE IF 100 * R.n < 95 * R.d THEN "stabilizes"
               ELSE "equilibrium")

\* the counts, the ratio and the interpretation of the claim
C25_Counts(res) ==
  /\ res.inhale = C25_Rising(res.w_values)
  /\ res.exhale = (Len(res.w_values) - 1) - C25_Rising(res.w_values)
  /\ res.inhale + res.exhale = Len(res.w_values) - 1
  /\ C25_Reading(res.inhale, res.exhale, res.R, res.interp)

\* C25 as stated: in every result of fractal_unfold inhale counts the
\* strictly increasing consecutive W pairs and exhale all other pairs, so
\* inhale + exhale = number of W-values - 1; the ratio is inhale / exhale,
\* infinite when exhale = 0 and inhale > 0, exactly 1.0 when both are 0; the
\* interpretation is unfolds above 1.05, stabilizes below 0.95 and
\* equilibrium otherwise.
C25_CountsAlways ==
  (pc = "done" /\ fn = "fractal_unfold" /\ ret.exc = "") => C25_Counts(ret)

\* C25: when fractal_unfold has computed at least one W-value, inhale counts
\* the strictly increasing consecutive W pairs and exhale all other pairs
\* (equal values count as exhale), so inhale + exhale = number of
\* W-values - 1; the ratio is inhale / exhale, infinite when exhale = 0 and
\* inhale > 0, exactly 1.0 when both are 0; the interpretation is unfolds
\* above 1.05, stabilizes below 0.95 and equilibrium otherwise.
C25_CountsOfSeries ==
  (pc = "done" /\ fn = "fractal_unfold" /\ ret.exc = ""
     /\ ret.w_values # <<>>) => C25_Counts(ret)

\* C25, witness: fractal_unfold has returned for the fixed point 101, whose
\* twelve W-values are all equal: eleven exhales and no inhale
C25_Witness_EqualValues ==
  /\ pc = "done" /\ fn = "fractal_unfold"
  /\ arg = 101
  /\ Len(ret.w_values) = 12
  /\ \A i \in 1..12 : ret.w_values[i] = [n |-> 101, d |-> 101]
  /\ ret.inhale = 0 /\ ret.exhale = 11
  /\ ret.interp = "stabilizes"

\* the canonical key of a row: normalised word, trimmed sphere, trimmed tone
C26_CanonicalKey(row) ==
  <<normalize(upper(strip(row.word))), strip(row.sphere), strip(row.tone)>>

\* C26: after any sequence of import_json_library, add_words_to_library and
\* load_spheres_into_memory calls no two rows of the library share the same
\* canonical key (normalised word, trimmed sphere, trimmed tone).
C26_OneRowPerKey ==
  \A i, j \in DOMAIN LIB_DF :
    C26_CanonicalKey(LIB_DF[i]) = C26_CanonicalKey(LIB_DF[j]) => i = j

\* a code and its L2C as one iteration of fractal_unfold used them: the
\* W-value is kept as the ratio l2c / curr_l1
C27_InRangePair(w) == w.d \in 1..CODE_MAX /\ w.n \in 1..CODE_MAX

\* C27: for every l1 in 0..999999 the L2C returned by calc_l2c_from_l1 lies
\* in 1..999999; hence fractal_unfold started from an in-range l1 >= 1 runs
\* its twelve iterations, each on an in-range code of at least 1: none stops
\* early as out of range and none divides by zero.
C27_L2CStaysInRange ==
  (pc = "done" /\ fn = "fractal_unfold") =>
     /\ (arg \in 0..CODE_MAX =>
           /\ calc_l2c_from_l1(arg).exc = ""
           /\ ~calc_l2c_from_l1(arg).out_of_range
           /\ calc_l2c_from_l1(arg).l2c # None
           /\ calc_l2c_from_l1(arg).l2c[1] \in 1..CODE_MAX)
     /\ (arg \in 1..CODE_MAX =>
           /\ ret.exc = ""
           /\ ret.iters = FRACTAL_STEPS
           /\ Len(ret.w_values) = FRACTAL_STEPS
           /\ ret.w_values[1].d = arg
           /\ \A i \in 1..FRACTAL_STEPS : C27_InRangePair(ret.w_values[i])
           /\ \A i \in 1..(FRACTAL_STEPS - 1) :
                ret.w_values[i + 1].d = ret.w_values[i].n)

\* C27, witness: fractal_unfold has returned for the highest code of the
\* range after twelve iterations
C27_Witness_FromTop ==
  /\ pc = "done" /\ fn = "fractal_unfold"
  /\ arg = CODE_MAX
  /\ ret.exc = ""
  /\ Len(ret.w_values) = FRACTAL_STEPS
  /\ ret.w_values[1].d = CODE_MAX
  /\ ret.w_values[2].d = ret.w_values[1].n

\* C28: for every result of analyze_word the FII lies in [-5, 5], so the
\* category given by fii_bar is one of Dissipator, Neutral and Harmonizer,
\* never Destroyer or Resonator.
C28_FiiRange ==
  (pc = "done" /\ fn = "analyze_word" /\ ret.exc = "" /\ ~ret.val.empty) =>
     /\ ret.val.C \in 0..SCALE /\ ret.val.Hm \in 0..SCALE
     /\ ret.val.Z \in 0..SCALE
     /\ ret.val.fii >= (0 - 5) * SCALE
     /\ ret.val.fii <= 5 * SCALE
     /\ ret.val.fii_category \in {"Dissipator", "Neutral", "Harmonizer"}
     /\ Len(ret.val.fii_bar) = 10

\* C28, witness: an analysis has returned a positive FII in the Harmonizer
\* band
C28_Witness_Harmonizer ==
  /\ pc = "done" /\ fn = "analyze_word" /\ ret.exc = "" /\ ~ret.val.empty
  /\ ret.val.fii >= 2 * SCALE
  /\ ret.val.fii_category = "Harmonizer"

\* the three pairs of targets that are neighbours on the W axis
C29_Neighbours == {<<"phi", "rt2">>, <<"phi", "e">>, <<"e", "pi">>}

\* only the score of pi has not underflowed to 0.0
C29_OnlyPiLeft ==
  ~C23_Zero("pi") /\ C23_Zero("phi") /\ C23_Zero("e") /\ C23_Zero("rt2")

\* C29 as stated: for every w the pair key selected by resonance_pair is
\* (phi, rt2), (phi, e) or (e, pi); (phi, pi), (e, rt2) and (pi, rt2) are
\* never selected.
C29_NeighbourPairAlways ==
  (pc = "done" /\ fn = "resonance_pair") => ret.pair_key \in C29_Neighbours

\* C29: the pair key selected by resonance_pair is (phi, rt2), (phi, e) or
\* (e, pi), except for the w (between about 747.86 and 748.27) at which only
\* the score of pi has not underflowed to 0.0, where it is (phi, pi);
\* (e, rt2) and (pi, rt2) are never selected.
C29_NeighbourPairUnlessOnlyPi ==
  (pc = "done" /\ fn = "resonance_pair") =>
     /\ ~C29_OnlyPiLeft => ret.pair_key \in C29_Neighbours
     /\ C29_OnlyPiLeft => ret.pair_key = <<"phi", "pi">>
     /\ ret.pair_key \notin {<<"e", "rt2">>, <<"pi", "rt2">>}

\* C29, witness: for w = 2.93, halfway between e and pi, the pair of e and
\* pi has come out
C29_Witness_EPi ==
  /\ pc = "done" /\ fn = "resonance_pair"
  /\ arg.w = [n |-> 2930, d |-> 1000]
  /\ ret.pair_key = <<"e", "pi">>

\* the row stays: the library after the handler has a row of the same
\* (word, sphere, tone), allowed if the row was
C30_Kept(row, after) ==
  \E j \in DOMAIN after :
    /\ KeyOf(after[j]) = KeyOf(row)
    /\ row.allowed => after[j].allowed

\* C30: add_words_to_library and import_json_library applied to a non-empty
\* library never remove an existing (word, sphere, tone) key and never turn
\* the allowed flag of an existing entry from true to false.
C30_KeysAndAllowedKept ==
  [][(/\ LIB_DF # <<>>
      /\ last_op'.name \in {"import_json_library", "add_words_to_library"})
       => \A i \in DOMAIN LIB_DF : C30_Kept(LIB_DF[i], LIB_DF')]_vars
====
